---- MODULE Spec2Model ----
(***************************************************************************)
(* RiskManager of GenX_FX (core/risk_manager.py): the portfolio ledger,    *)
(* the admission checks, Kelly position sizing, the emergency stop and the *)
(* risk-monitoring loop.                                                   *)
(*                                                                         *)
(* Python floats are modelled by exact arithmetic.  Money amounts of the   *)
(* ledger and the fields of a Position are integers; fractions (the        *)
(* RiskLimits, a signal's confidence, prices and the computed position     *)
(* size) are rationals [n |-> numerator, d |-> denominator], d > 0, kept   *)
(* in lowest terms.                                                        *)
(*                                                                         *)
(* The coroutines of RiskManager suspend only where they await the broker  *)
(* (get_current_price, get_positions) or asyncio.sleep: the Metrics        *)
(* collaborator of this repository (observability/metrics.py) appends to   *)
(* in-memory buffers and never suspends.  Every public operation is        *)
(* therefore one atomic action, and a monitor tick is split at each        *)
(* broker price lookup.                                                    *)
(***************************************************************************)
EXTENDS Integers, Sequences, FiniteSets, TLC

\* ------------------------------------------------------------------------
\* Bounds of the model
\* ------------------------------------------------------------------------
\* update_position calls in one behaviour (start-up loading not counted)
MaxUpdates == 2

\* signals in one list handed to DecisionEngine._rank_signals
MaxRanked == 3

\* positions in what broker.get_positions() answers at start-up, for the
\* liquidation of a loaded book
MaxLoaded == 3

\* symbols in the market_data of one DecisionEngine.generate_signals call
MaxSymbols == 2

\* ------------------------------------------------------------------------
\* Exact rational arithmetic standing for Python float arithmetic
\* ------------------------------------------------------------------------
Abs(x) == IF x < 0 THEN -x ELSE x

RECURSIVE Gcd(_, _)
Gcd(a, b) == IF b = 0 THEN a ELSE Gcd(b, a % b)

Rat(n, d) ==
    LET s == IF d < 0 THEN -1 ELSE 1
        g == Gcd(Abs(n), Abs(d))
    IN [n |-> (s * n) \div g, d |-> (s * d) \div g]

FromInt(i) == [n |-> i, d |-> 1]
RNeg(a) == [n |-> -a.n, d |-> a.d]
RAdd(a, b) == Rat(a.n * b.d + b.n * a.d, a.d * b.d)
RSub(a, b) == RAdd(a, RNeg(b))
RMul(a, b) == Rat(a.n * b.n, a.d * b.d)
RDiv(a, b) == Rat(a.n * b.d, a.d * b.n)
RAbs(a) == [n |-> Abs(a.n), d |-> a.d]
RLe(a, b) == a.n * b.d <= b.n * a.d
RLt(a, b) == a.n * b.d < b.n * a.d
RGe(a, b) == RLe(b, a)
RGt(a, b) == RLt(b, a)
RMin(a, b) == IF RLe(a, b) THEN a ELSE b
RMax(a, b) == IF RGe(a, b) THEN a ELSE b
RZero == FromInt(0)

\* ------------------------------------------------------------------------
\* RiskEvent values
\* ------------------------------------------------------------------------
POSITION_LIMIT_EXCEEDED == "position_limit_exceeded"
DAILY_LOSS_LIMIT_EXCEEDED == "daily_loss_limit_exceeded"
DRAWDOWN_LIMIT_EXCEEDED == "drawdown_limit_exceeded"
CORRELATION_LIMIT_EXCEEDED == "correlation_limit_exceeded"
VOLATILITY_LIMIT_EXCEEDED == "volatility_limit_exceeded"
EMERGENCY_STOP == "emergency_stop"

\* ------------------------------------------------------------------------
\* RiskLimits as main.py constructs it (the dataclass defaults are the same)
\* ------------------------------------------------------------------------
RiskLimits ==
    [max_position_size   |-> Rat(1, 10),
     max_daily_loss      |-> Rat(5, 100),
     max_drawdown        |-> Rat(15, 100),
     max_correlation     |-> Rat(7, 10),
     max_volatility      |-> Rat(3, 10),
     max_leverage        |-> Rat(2, 1),
     max_positions       |-> 10,
     emergency_stop_loss |-> Rat(2, 10)]

\* Starting portfolio value set by __init__
StartingPortfolioValue == 100000

\* ------------------------------------------------------------------------
\* Inputs
\* ------------------------------------------------------------------------
Symbols == {"EURUSD", "GBPUSD"}

\* position_data dictionaries handed to update_position
PositionData ==
    { [side |-> "long",  size |-> 1000, entry_price |-> 100, current_price |-> 75],
      [side |-> "short", size |-> 1000, entry_price |-> 100, current_price |-> 70] }

\* signals handed to filter_signals and check_risk_limits
MomentumSignal ==
    [symbol |-> "EURUSD", confidence |-> Rat(8, 10), entry_price |-> Rat(100, 1),
     stop_loss |-> Rat(98, 1), position_size |-> Rat(5, 100)]
WeakSignal ==
    [symbol |-> "GBPUSD", confidence |-> Rat(5, 10), entry_price |-> Rat(100, 1),
     stop_loss |-> Rat(98, 1), position_size |-> Rat(5, 100)]
PennySignal ==
    [symbol |-> "XAUUSD", confidence |-> Rat(8, 10), entry_price |-> Rat(1, 2),
     stop_loss |-> Rat(199, 400), position_size |-> Rat(5, 100)]
NoStopSignal ==
    [symbol |-> "EURUSD", confidence |-> Rat(8, 10), entry_price |-> Rat(100, 1),
     position_size |-> Rat(5, 100)]
FlatStopSignal ==
    [symbol |-> "GBPUSD", confidence |-> Rat(7, 10), entry_price |-> Rat(100, 1),
     stop_loss |-> Rat(100, 1), position_size |-> Rat(5, 100)]
VolatileSignal ==
    [symbol |-> "GBPUSD", confidence |-> Rat(7, 10), entry_price |-> Rat(100, 1),
     stop_loss |-> Rat(95, 1), position_size |-> Rat(2, 1)]
OversizedSignal ==
    [symbol |-> "XAUUSD", confidence |-> Rat(9, 10), entry_price |-> Rat(100, 1),
     stop_loss |-> Rat(95, 1), position_size |-> Rat(20000, 1)]

SignalInputs ==
    {MomentumSignal, WeakSignal, PennySignal, NoStopSignal, FlatStopSignal,
     VolatileSignal, OversizedSignal}

\* batches handed to filter_signals
SignalBatches ==
    { <<MomentumSignal, PennySignal>>, <<WeakSignal, NoStopSignal>>,
      <<FlatStopSignal, VolatileSignal>>, <<OversizedSignal>> }

\* signals handed to check_risk_limits directly
CheckedSignals == {MomentumSignal, VolatileSignal, OversizedSignal}

\* signals handed to _calculate_position_size directly: confidences below
\* 1/3, above 1/2 and outside [0, 1], a signal with no confidence and one
\* with a negative entry price
SizingConfidences == {Rat(-1, 2), Rat(1, 5), Rat(99, 100), Rat(3, 2)}

NoConfidenceSignal ==
    [symbol |-> "EURUSD", entry_price |-> Rat(1, 2), stop_loss |-> Rat(49, 100)]
NegativePriceSignal ==
    [symbol |-> "GBPUSD", confidence |-> Rat(8, 10), entry_price |-> Rat(-1, 2),
     stop_loss |-> Rat(-49, 100)]

SizingSignals ==
    { [symbol |-> "EURUSD", confidence |-> c, entry_price |-> Rat(1, 2),
       stop_loss |-> Rat(49, 100)] : c \in SizingConfidences }
        \cup {NoConfidenceSignal, NegativePriceSignal}

\* new_params dictionaries handed to update_parameters
ParameterUpdates ==
    { [max_positions |-> 1],
      [emergency_stop |-> FALSE, max_correlation |-> Rat(2, 10)] }

\* what broker.get_positions() answers at start-up
BrokerSnapshots ==
    { <<>>,
      <<[symbol |-> "EURUSD",
         data |-> [side |-> "long", size |-> 1000, entry_price |-> 100,
                   current_price |-> 75]]>> }

\* the symbols of a loaded book and what broker.get_positions() answers for
\* it: a dict of up to MaxLoaded positions
LoadedSymbols == {"EURUSD", "GBPUSD", "XAUUSD", "USDJPY"}

LoadedSnapshots ==
    { snapshot \in UNION { [1..n -> [symbol : LoadedSymbols, data : PositionData]] :
                              n \in 0..MaxLoaded } :
          \A i, j \in 1..Len(snapshot) :
              snapshot[i].symbol = snapshot[j].symbol => i = j }

\* the metrics argument of initialize: the MetricsCollector main.py passes
\* ("up"), or None, or a collaborator whose record_risk_event and send_alert
\* raise
WorkingMetrics == {"up"}
FailingMetrics == {"none", "raising"}

\* what broker.get_current_price() answers; 0 stands for None
BrokerPrices == {0, 120}

\* ------------------------------------------------------------------------
\* DecisionEngine (core/decision_engine.py): its configuration and the
\* market data handed to generate_signals
\* ------------------------------------------------------------------------
\* DecisionEngineConfig()
DecisionEngineConfig ==
    [max_signals_per_cycle |-> 10,
     min_confidence        |-> Rat(6, 10),
     max_position_size     |-> Rat(1, 10),
     risk_per_trade        |-> Rat(2, 100),
     lookback_period       |-> 100]

\* the new_params of DecisionEngine.update_parameters
EngineParameterUpdates ==
    { [min_confidence |-> Rat(3, 4)], [max_signals_per_cycle |-> 2] }

\* market_data.get(symbol, {}): the lengths of the close list (closes) and of
\* the high, low and volume lists (bars), the last close and volume, what
\* numpy computes from the lists, the quote, and the (prediction,
\* confidence) answers of the ensemble models that ran.
\* A flat market: no strategy finds anything
Quiet ==
    [closes |-> 120, bars |-> 120, close |-> 100, avg_gain |-> 1, avg_loss |-> 1,
     macd |-> 0, sma_20 |-> 100, sma_50 |-> 100, std_20 |-> 2,
     high_20 |-> 104, low_20 |-> 96, volume |-> 100, avg_volume |-> 100,
     bid |-> 100, ask |-> 100, bid_none |-> FALSE, ensemble |-> <<>>]

\* RSI 65 above both averages, and a break of the 20 bar high on volume
Uptrend ==
    [Quiet EXCEPT !.close = 110, !.avg_gain = 13, !.avg_loss = 7, !.macd = 2,
                  !.sma_20 = 105, !.std_20 = 4, !.high_20 = 108, !.volume = 200,
                  !.bid = 110, !.ask = 110]

\* RSI 45 below both averages; the models answer with confidence 1/2
WeakDowntrend ==
    [Quiet EXCEPT !.close = 90, !.avg_gain = 9, !.avg_loss = 11, !.macd = -2,
                  !.sma_20 = 95, !.low_20 = 85, !.bid = 90, !.ask = 90,
                  !.ensemble = <<[prediction |-> Rat(7, 10),
                                  confidence |-> Rat(1, 2)]>>]

\* RSI 25 on the lower band, a spread of 1.25 percent; the models answer
\* with confidence 9/10
Oversold ==
    [Quiet EXCEPT !.close = 80, !.avg_gain = 1, !.avg_loss = 3, !.macd = -3,
                  !.sma_20 = 90, !.std_20 = 5, !.low_20 = 78,
                  !.bid = 79, !.ask = 80,
                  !.ensemble = <<[prediction |-> Rat(9, 10),
                                  confidence |-> Rat(9, 10)]>>]

\* an empty close list beside full high, low and volume lists
NoCloses ==
    [Quiet EXCEPT !.closes = 0, !.close = 0, !.volume = 200, !.bid = 99]

\* no entry for the symbol: the {} of market_data.get(symbol, {})
NoData ==
    [Quiet EXCEPT !.closes = 0, !.close = 0, !.bars = 0, !.volume = 0,
                  !.bid = 0, !.ask = 0]

\* ten bars of history and a quote whose bid is None
BadQuote ==
    [Quiet EXCEPT !.closes = 10, !.bars = 10, !.bid = 0, !.bid_none = TRUE]

SymbolData == {Quiet, Uptrend, WeakDowntrend, Oversold, NoCloses, NoData, BadQuote}

\* market_data['symbols']
MarketSymbols == <<"EURUSD", "GBPUSD", "XAUUSD">>

\* market_data: the symbols in order, each with the entry kept under it
MarketData ==
    UNION { { [i \in 1..n |-> [symbol |-> MarketSymbols[i], data |-> data[i]]] :
                data \in [1..n -> SymbolData] } : n \in 0..MaxSymbols }

VARIABLES
    \* the fields of the RiskManager object; of self.risk_events, an
    \* append-only list that no decision of RiskManager reads, the model keeps
    \* the entries the last operation appended
    config, positions, appended, daily_pnl, total_pnl,
    portfolio_value, peak_value, emergency_stop,
    \* self.broker: "none" or "up"
    broker,
    \* self.metrics: "none", "up" or "raising", and what the last operation
    \* handed to it: the risk events recorded and the alerts sent
    metrics, notified,
    \* the monitoring task: "off" before initialize, "sleep" in asyncio.sleep,
    \* "price" awaiting broker.get_current_price inside _update_position_prices
    mon_pc,
    \* the dict iterator of _update_position_prices: the keys of the entries
    \* behind its cursor, the key whose Position object the loop holds ("" once
    \* that object is no longer the one in the dict), the size of the dict when
    \* the iteration began and the number of items yielded
    mon_visited, mon_held, mon_size, mon_count,
    \* update_position calls so far
    updates,
    \* how deep the calls of _emergency_stop were nested at most while the
    \* last operation ran
    stop_nesting,
    \* the DecisionEngine object: self.config, and the signals the last
    \* generate_signals call appended to self.signal_history
    engine_config, signal_history,
    \* the last operation, its arguments and what it returned
    last

\* ------------------------------------------------------------------------
\* Pieces of the Python object model
\* ------------------------------------------------------------------------
\* self.positions is a dict: a sequence of Position records in insertion
\* order, one per key
Keys(ps) == [i \in 1..Len(ps) |-> ps[i].symbol]

HasKey(ps, symbol) == \E i \in 1..Len(ps) : ps[i].symbol = symbol

IndexOf(ps, symbol) == CHOOSE i \in 1..Len(ps) : ps[i].symbol = symbol

\* self.positions[symbol] = position: a held key keeps its place
DictSet(ps, position) ==
    IF HasKey(ps, position.symbol)
    THEN [ps EXCEPT ![IndexOf(ps, position.symbol)] = position]
    ELSE Append(ps, position)

\* del self.positions[symbol]
DictDel(ps, symbol) ==
    LET k == IndexOf(ps, symbol)
    IN [i \in 1..(Len(ps) - 1) |-> IF i < k THEN ps[i] ELSE ps[i + 1]]

\* the unrealized PnL both update_position and _update_position_prices compute
UnrealizedPnl(side, size, entry_price, current_price) ==
    IF side = "long"
    THEN (current_price - entry_price) * size
    ELSE (entry_price - current_price) * size

\* the object as one value, for the operators below; risk_events holds what
\* the running operation has appended to the list so far
Self ==
    [config          |-> config,
     positions       |-> positions,
     risk_events     |-> <<>>,
     metrics         |-> metrics,
     notified        |-> <<>>,
     daily_pnl       |-> daily_pnl,
     total_pnl       |-> total_pnl,
     portfolio_value |-> portfolio_value,
     peak_value      |-> peak_value,
     emergency_stop  |-> emergency_stop,
     stop_calls      |-> [nesting |-> 0, deepest |-> 0]]

\* ------------------------------------------------------------------------
\* The limit conditions
\* ------------------------------------------------------------------------
\* self.daily_pnl <= -self.config.max_daily_loss * self.portfolio_value
DailyLossBreached(self) ==
    RLe(FromInt(self.daily_pnl),
        RMul(RNeg(self.config.max_daily_loss), FromInt(self.portfolio_value)))

\* the drawdown measured from the starting value instead of the peak
Drawdown_from_start(self) ==
    Rat(StartingPortfolioValue - self.portfolio_value, StartingPortfolioValue)

\* (self.peak_value - self.portfolio_value) / self.peak_value
Drawdown(self) == Rat(self.peak_value - self.portfolio_value, self.peak_value)

DrawdownBreached(self) == RGe(Drawdown(self), self.config.max_drawdown)

\* self.total_pnl <= -self.config.emergency_stop_loss * self.portfolio_value
EmergencyCondition(self) ==
    RLe(FromInt(self.total_pnl),
        RMul(RNeg(self.config.emergency_stop_loss), FromInt(self.portfolio_value)))

\* ------------------------------------------------------------------------
\* Ledger operations.  _update_portfolio_metrics, _trigger_risk_event,
\* _emergency_stop and close_position call one another.
\* ------------------------------------------------------------------------
\* the fold of close_position leaving out self.daily_pnl += realized_pnl
FoldPosition_no_daily(self, symbol) ==
    LET position == self.positions[IndexOf(self.positions, symbol)]
        realized_pnl == position.unrealized_pnl
    IN [self EXCEPT !.total_pnl = @ + realized_pnl,
                    !.portfolio_value = @ + realized_pnl,
                    !.positions = DictDel(@, symbol)]

\* close_position of a held symbol up to and including del self.positions[symbol]
FoldPosition(self, symbol) ==
    LET position == self.positions[IndexOf(self.positions, symbol)]
        realized_pnl == position.unrealized_pnl
    IN [self EXCEPT !.total_pnl = @ + realized_pnl,
                    !.daily_pnl = @ + realized_pnl,
                    !.portfolio_value = @ + realized_pnl,
                    !.positions = DictDel(@, symbol)]

RECURSIVE _update_portfolio_metrics(_), _trigger_risk_event(_, _),
          _emergency_stop(_), CloseEach(_, _), close_position(_, _)

\* the entry _trigger_risk_event appends: its event value (the timestamp and
\* the copied portfolio_value, daily_pnl, total_pnl are read by no code)
EventRecord(self, event) == event

\* await self.metrics.record_risk_event(...): with no collaborator the
\* attribute lookup raises, a failing collaborator raises; the caller's
\* except clause logs the error
record_risk_event(self, event) ==
    IF self.metrics = "up"
    THEN [self EXCEPT !.notified = Append(@, event)]
    ELSE self

\* await self.metrics.send_alert(alert_type, message)
send_alert(self, alert_type) ==
    IF self.metrics = "up"
    THEN [self EXCEPT !.notified = Append(@, alert_type)]
    ELSE self

\* _trigger_risk_event comparing the enum member with its value string, so
\* that the emergency stop is never run
_trigger_risk_event_no_stop(self, event) ==
    record_risk_event(
        [self EXCEPT !.risk_events = Append(@, EventRecord(self, event))], event)

\* _trigger_risk_event notifying the Metrics collaborator first: when the
\* call raises, the except clause is entered before anything else is done
_trigger_risk_event_notify_first(self, event) ==
    IF self.metrics # "up"
    THEN self
    ELSE LET told == record_risk_event(self, event)
             logged == [told EXCEPT
                           !.risk_events = Append(@, EventRecord(told, event))]
         IN IF event = EMERGENCY_STOP THEN _emergency_stop(logged) ELSE logged

_trigger_risk_event(self, event) ==
    LET logged == [self EXCEPT !.risk_events = Append(@, EventRecord(self, event))]
    IN IF event = EMERGENCY_STOP
       THEN record_risk_event(_emergency_stop(logged), event)
       ELSE record_risk_event(logged, event)

\* for symbol in list(self.positions.keys()): await self.close_position(symbol)
CloseEach(self, symbols) ==
    IF symbols = <<>>
    THEN self
    ELSE CloseEach(close_position(self, Head(symbols)), Tail(symbols))

\* a call of _emergency_stop is entered and left: the nesting of the calls
\* in progress and the deepest nesting the running operation has reached
EnterStop(calls) ==
    [nesting |-> calls.nesting + 1,
     deepest |-> IF calls.nesting + 1 > calls.deepest
                 THEN calls.nesting + 1 ELSE calls.deepest]

LeaveStop(self) == [self EXCEPT !.stop_calls.nesting = @ - 1]

\* _emergency_stop returning from inside its loop, after the first position
_emergency_stop_first_only(self) ==
    LET stopped == [self EXCEPT !.emergency_stop = TRUE,
                                !.stop_calls = EnterStop(@)]
        first == IF stopped.positions = <<>>
                 THEN <<>> ELSE <<stopped.positions[1].symbol>>
    IN LeaveStop(send_alert(CloseEach(stopped, first), "EMERGENCY_STOP"))

_emergency_stop(self) ==
    LET stopped == [self EXCEPT !.emergency_stop = TRUE,
                                !.stop_calls = EnterStop(@)]
    IN LeaveStop(send_alert(CloseEach(stopped, Keys(stopped.positions)),
                            "EMERGENCY_STOP"))

\* close_position re-checking the portfolio metrics also when the symbol is
\* not held
close_position_always_updates(self, symbol) ==
    IF ~HasKey(self.positions, symbol)
    THEN _update_portfolio_metrics(self)
    ELSE _update_portfolio_metrics(FoldPosition(self, symbol))

\* close_position returning after del self.positions[symbol], without the
\* call of _update_portfolio_metrics
close_position_unchecked(self, symbol) ==
    IF ~HasKey(self.positions, symbol)
    THEN self
    ELSE FoldPosition(self, symbol)

close_position(self, symbol) ==
    IF ~HasKey(self.positions, symbol)
    THEN self
    ELSE _update_portfolio_metrics(FoldPosition(self, symbol))

\* _update_portfolio_metrics without the update of the peak value
_update_portfolio_metrics_no_peak(self) ==
    LET s2 == IF DrawdownBreached(self)
              THEN _trigger_risk_event(self, DRAWDOWN_LIMIT_EXCEEDED)
              ELSE self
        s3 == IF DailyLossBreached(s2)
              THEN _trigger_risk_event(s2, DAILY_LOSS_LIMIT_EXCEEDED)
              ELSE s2
    IN IF EmergencyCondition(s3)
       THEN _trigger_risk_event(s3, EMERGENCY_STOP)
       ELSE s3

_update_portfolio_metrics(self) ==
    LET s1 == IF self.portfolio_value > self.peak_value
              THEN [self EXCEPT !.peak_value = self.portfolio_value]
              ELSE self
        s2 == IF DrawdownBreached(s1)
              THEN _trigger_risk_event(s1, DRAWDOWN_LIMIT_EXCEEDED)
              ELSE s1
        s3 == IF DailyLossBreached(s2)
              THEN _trigger_risk_event(s2, DAILY_LOSS_LIMIT_EXCEEDED)
              ELSE s2
    IN IF EmergencyCondition(s3)
       THEN _trigger_risk_event(s3, EMERGENCY_STOP)
       ELSE s3

\* the Position update_position builds from position_data
NewPosition(symbol, position_data) ==
    [symbol         |-> symbol,
     side           |-> position_data.side,
     size           |-> position_data.size,
     entry_price    |-> position_data.entry_price,
     current_price  |-> position_data.current_price,
     unrealized_pnl |-> UnrealizedPnl(position_data.side, position_data.size,
                                      position_data.entry_price,
                                      position_data.current_price)]

\* update_position up to and including self.positions[symbol] = position
StorePosition(self, symbol, position_data) ==
    [self EXCEPT !.positions = DictSet(@, NewPosition(symbol, position_data))]

update_position(self, symbol, position_data) ==
    _update_portfolio_metrics(StorePosition(self, symbol, position_data))

\* ------------------------------------------------------------------------
\* Admission: check_risk_limits, _check_signal_risk, sizing, filter_signals
\* ------------------------------------------------------------------------
\* signal.get(key, default)
Get(signal, key, default) ==
    IF key \in DOMAIN signal THEN signal[key] ELSE default

\* the placeholder estimates the source hardcodes
PlaceholderCorrelation == Rat(3, 10)
PlaceholderPortfolioVolatility == Rat(15, 100)
PlaceholderSymbolVolatility == Rat(2, 10)
MinSignalConfidence == Rat(6, 10)
LosingPositionFraction == Rat(2, 100)

\* _calculate_correlation
_calculate_correlation(symbol1, symbol2) == PlaceholderCorrelation

\* _check_correlation_limits: TRUE when the signal violates the limit
_check_correlation_limits(self, signal) ==
    IF Len(self.positions) < 2
    THEN FALSE
    ELSE \E i \in 1..Len(self.positions) :
            RGt(_calculate_correlation(Get(signal, "symbol", ""),
                                       self.positions[i].symbol),
                self.config.max_correlation)

RECURSIVE SumExposure(_)
\* sum(pos.size * pos.current_price for pos in self.positions.values())
SumExposure(ps) ==
    IF ps = <<>> THEN 0
    ELSE Head(ps).size * Head(ps).current_price + SumExposure(Tail(ps))

\* _calculate_portfolio_volatility; a zero portfolio_value raises
\* ZeroDivisionError, which the method catches and answers 0
_calculate_portfolio_volatility(self) ==
    IF self.positions = <<>> \/ self.portfolio_value = 0
    THEN RZero
    ELSE RMul(PlaceholderPortfolioVolatility,
              Rat(SumExposure(self.positions), self.portfolio_value))

\* _estimate_symbol_volatility
_estimate_symbol_volatility(symbol) == PlaceholderSymbolVolatility

\* _check_volatility_limits: TRUE when the signal violates the limit
_check_volatility_limits(self, signal) ==
    LET current_volatility == _calculate_portfolio_volatility(self)
        position_size == Get(signal, "position_size", RZero)
        estimated_volatility ==
            _estimate_symbol_volatility(Get(signal, "symbol", ""))
        new_volatility ==
            RAdd(current_volatility, RMul(estimated_volatility, position_size))
    IN RGt(new_volatility, self.config.max_volatility)

\* position_size > self.config.max_position_size * self.portfolio_value
PositionSizeExceeded(self, signal) ==
    RGt(Get(signal, "position_size", RZero),
        RMul(self.config.max_position_size, FromInt(self.portfolio_value)))

\* check_risk_limits with the emergency-stop check placed after the daily
\* loss check
check_risk_limits_daily_first(self, signal) ==
    IF DailyLossBreached(self)
    THEN [ok |-> FALSE,
          self |-> _trigger_risk_event(self, DAILY_LOSS_LIMIT_EXCEEDED)]
    ELSE IF self.emergency_stop
    THEN [ok |-> FALSE, self |-> self]
    ELSE IF DrawdownBreached(self)
    THEN [ok |-> FALSE,
          self |-> _trigger_risk_event(self, DRAWDOWN_LIMIT_EXCEEDED)]
    ELSE IF Len(self.positions) >= self.config.max_positions
    THEN [ok |-> FALSE,
          self |-> _trigger_risk_event(self, POSITION_LIMIT_EXCEEDED)]
    ELSE IF PositionSizeExceeded(self, signal)
    THEN [ok |-> FALSE, self |-> self]
    ELSE IF _check_correlation_limits(self, signal)
    THEN [ok |-> FALSE, self |-> self]
    ELSE IF _check_volatility_limits(self, signal)
    THEN [ok |-> FALSE, self |-> self]
    ELSE [ok |-> TRUE, self |-> self]

\* check_risk_limits comparing the position count with > instead of >=
check_risk_limits_count_strict(self, signal) ==
    IF self.emergency_stop
    THEN [ok |-> FALSE, self |-> self]
    ELSE IF DailyLossBreached(self)
    THEN [ok |-> FALSE,
          self |-> _trigger_risk_event(self, DAILY_LOSS_LIMIT_EXCEEDED)]
    ELSE IF DrawdownBreached(self)
    THEN [ok |-> FALSE,
          self |-> _trigger_risk_event(self, DRAWDOWN_LIMIT_EXCEEDED)]
    ELSE IF Len(self.positions) > self.config.max_positions
    THEN [ok |-> FALSE,
          self |-> _trigger_risk_event(self, POSITION_LIMIT_EXCEEDED)]
    ELSE IF PositionSizeExceeded(self, signal)
    THEN [ok |-> FALSE, self |-> self]
    ELSE IF _check_correlation_limits(self, signal)
    THEN [ok |-> FALSE, self |-> self]
    ELSE IF _check_volatility_limits(self, signal)
    THEN [ok |-> FALSE, self |-> self]
    ELSE [ok |-> TRUE, self |-> self]

\* check_risk_limits: [ok |-> the returned bool, self |-> the object after]
check_risk_limits(self, signal) ==
    IF self.emergency_stop
    THEN [ok |-> FALSE, self |-> self]
    ELSE IF DailyLossBreached(self)
    THEN [ok |-> FALSE,
          self |-> _trigger_risk_event(self, DAILY_LOSS_LIMIT_EXCEEDED)]
    ELSE IF DrawdownBreached(self)
    THEN [ok |-> FALSE,
          self |-> _trigger_risk_event(self, DRAWDOWN_LIMIT_EXCEEDED)]
    ELSE IF Len(self.positions) >= self.config.max_positions
    THEN [ok |-> FALSE,
          self |-> _trigger_risk_event(self, POSITION_LIMIT_EXCEEDED)]
    ELSE IF PositionSizeExceeded(self, signal)
    THEN [ok |-> FALSE, self |-> self]
    ELSE IF _check_correlation_limits(self, signal)
    THEN [ok |-> FALSE, self |-> self]
    ELSE IF _check_volatility_limits(self, signal)
    THEN [ok |-> FALSE, self |-> self]
    ELSE [ok |-> TRUE, self |-> self]

\* _check_signal_risk
_check_signal_risk(self, signal) ==
    LET basic == check_risk_limits(self, signal)
        symbol == Get(signal, "symbol", "")
        confidence == Get(signal, "confidence", RZero)
        after == basic.self
    IN IF ~basic.ok
       THEN basic
       ELSE IF RLt(confidence, MinSignalConfidence)
       THEN [ok |-> FALSE, self |-> after]
       ELSE IF /\ HasKey(after.positions, symbol)
               /\ RLt(FromInt(after.positions[IndexOf(after.positions, symbol)]
                                 .unrealized_pnl),
                      RMul(RNeg(LosingPositionFraction),
                           FromInt(after.portfolio_value)))
       THEN [ok |-> FALSE, self |-> after]
       ELSE [ok |-> TRUE, self |-> after]

\* the assumed 2:1 reward to risk ratio, the Kelly cap and the share of the
\* daily loss limit risked per trade
WinLossRatio == Rat(2, 1)
KellyCap == Rat(25, 100)
DailyLossShare == Rat(1, 10)

\* (p * b - (1 - p)) / b, before clamping
KellyRaw(confidence) ==
    RDiv(RSub(RMul(confidence, WinLossRatio), RSub(FromInt(1), confidence)),
         WinLossRatio)

\* the Kelly fraction capped at 25% but not floored at 0
KellyFraction_no_floor(confidence) == RMin(KellyRaw(confidence), KellyCap)

\* max(0, min(kelly_fraction, 0.25))
KellyFraction(confidence) == RMax(RZero, RMin(KellyRaw(confidence), KellyCap))

\* _calculate_position_size budgeting the risk per trade from what is left
\* of the daily loss limit after today's realized PnL
_calculate_position_size_daily_budget(self, signal) ==
    LET confidence == Get(signal, "confidence", Rat(1, 2))
        entry_price == Get(signal, "entry_price", RZero)
        stop_loss == Get(signal, "stop_loss", entry_price)
    IN IF entry_price = RZero
       THEN RZero
       ELSE LET pv == FromInt(self.portfolio_value)
                risk_per_trade ==
                    RMin(RMul(self.config.max_position_size, pv),
                         RMul(RAdd(RMul(self.config.max_daily_loss, pv),
                                   FromInt(self.daily_pnl)),
                              DailyLossShare))
                stop_distance == RDiv(RAbs(RSub(entry_price, stop_loss)), entry_price)
            IN IF stop_distance = RZero
               THEN RZero
               ELSE LET kelly_fraction == KellyFraction(confidence)
                        sized == RMul(RDiv(risk_per_trade, stop_distance),
                                      kelly_fraction)
                        max_position_value ==
                            RMul(self.config.max_position_size, pv)
                        capped == RMin(sized, RDiv(max_position_value, entry_price))
                    IN RMax(RZero, RMul(capped, confidence))

\* _calculate_position_size scaling by the confidence before it applies the
\* cap on the position value
_calculate_position_size_cap_last(self, signal) ==
    LET confidence == Get(signal, "confidence", Rat(1, 2))
        entry_price == Get(signal, "entry_price", RZero)
        stop_loss == Get(signal, "stop_loss", entry_price)
    IN IF entry_price = RZero
       THEN RZero
       ELSE LET pv == FromInt(self.portfolio_value)
                risk_per_trade ==
                    RMin(RMul(self.config.max_position_size, pv),
                         RMul(RMul(self.config.max_daily_loss, pv), DailyLossShare))
                stop_distance == RDiv(RAbs(RSub(entry_price, stop_loss)), entry_price)
            IN IF stop_distance = RZero
               THEN RZero
               ELSE LET kelly_fraction == KellyFraction(confidence)
                        sized == RMul(RDiv(risk_per_trade, stop_distance),
                                      kelly_fraction)
                        max_position_value ==
                            RMul(self.config.max_position_size, pv)
                        scaled == RMul(sized, confidence)
                    IN RMax(RZero, RMin(scaled, RDiv(max_position_value, entry_price)))

\* _calculate_position_size
_calculate_position_size(self, signal) ==
    LET confidence == Get(signal, "confidence", Rat(1, 2))
        entry_price == Get(signal, "entry_price", RZero)
        stop_loss == Get(signal, "stop_loss", entry_price)
    IN IF entry_price = RZero
       THEN RZero
       ELSE LET pv == FromInt(self.portfolio_value)
                risk_per_trade ==
                    RMin(RMul(self.config.max_position_size, pv),
                         RMul(RMul(self.config.max_daily_loss, pv), DailyLossShare))
                stop_distance == RDiv(RAbs(RSub(entry_price, stop_loss)), entry_price)
            IN IF stop_distance = RZero
               THEN RZero
               ELSE LET kelly_fraction == KellyFraction(confidence)
                        sized == RMul(RDiv(risk_per_trade, stop_distance),
                                      kelly_fraction)
                        max_position_value ==
                            RMul(self.config.max_position_size, pv)
                        capped == RMin(sized, RDiv(max_position_value, entry_price))
                    IN RMax(RZero, RMul(capped, confidence))

\* signal['position_size'] = ...
WithPositionSize(signal, size) ==
    [k \in DOMAIN signal \cup {"position_size"} |->
        IF k = "position_size" THEN size ELSE signal[k]]

RECURSIVE FilterLoop(_, _, _)
\* the loop of filter_signals over the batch
FilterLoop(self, signals, filtered_signals) ==
    IF signals = <<>>
    THEN [self |-> self, filtered_signals |-> filtered_signals]
    ELSE LET signal == Head(signals)
             risk == _check_signal_risk(self, signal)
         IN IF risk.ok
            THEN FilterLoop(risk.self, Tail(signals),
                            Append(filtered_signals,
                                   WithPositionSize(signal,
                                       _calculate_position_size(risk.self, signal))))
            ELSE FilterLoop(risk.self, Tail(signals), filtered_signals)

filter_signals(self, signals) == FilterLoop(self, signals, <<>>)

\* update_parameters testing and setting the attributes of the RiskManager
\* itself as well as those of its config
update_parameters_on_self(self, new_params) ==
    [key \in DOMAIN self |->
        IF key = "config"
        THEN [k \in DOMAIN self.config |->
                 IF k \in DOMAIN new_params THEN new_params[k] ELSE self.config[k]]
        ELSE IF key \in DOMAIN new_params THEN new_params[key] ELSE self[key]]

\* update_parameters: setattr on self.config for the keys it has
update_parameters(self, new_params) ==
    [self EXCEPT !.config =
        [key \in DOMAIN self.config |->
            IF key \in DOMAIN new_params THEN new_params[key] ELSE self.config[key]]]

\* _check_all_risk_limits
_check_all_risk_limits(self) ==
    LET s1 == IF Len(self.positions) > self.config.max_positions
              THEN _trigger_risk_event(self, POSITION_LIMIT_EXCEEDED)
              ELSE self
        s2 == IF DailyLossBreached(s1)
              THEN _trigger_risk_event(s1, DAILY_LOSS_LIMIT_EXCEEDED)
              ELSE s1
    IN IF DrawdownBreached(s2)
       THEN _trigger_risk_event(s2, DRAWDOWN_LIMIT_EXCEEDED)
       ELSE s2

\* a monitor tick after _update_position_prices returned
FinishTick(self) == _update_portfolio_metrics(_check_all_risk_limits(self))

\* the price refresh writing position.current_price and leaving the
\* unrealized PnL as it was
RefreshPrice_price_only(self, symbol, current_price) ==
    LET k == IndexOf(self.positions, symbol)
    IN [self EXCEPT !.positions[k].current_price = current_price]

\* position.current_price = current_price and the PnL recomputed, for the
\* Position held under the key
RefreshPrice(self, symbol, current_price) ==
    LET k == IndexOf(self.positions, symbol)
        position == self.positions[k]
    IN [self EXCEPT !.positions[k] =
           [position EXCEPT !.current_price = current_price,
                            !.unrealized_pnl =
                                UnrealizedPnl(position.side, position.size,
                                              position.entry_price, current_price)]]

RECURSIVE LoadEach(_, _)
\* the loop of _load_positions
LoadEach(self, snapshot) ==
    IF snapshot = <<>>
    THEN self
    ELSE LoadEach(update_position(self, Head(snapshot).symbol, Head(snapshot).data),
                  Tail(snapshot))

\* _load_positions: with no broker the lookup raises and nothing is loaded
_load_positions(self, brk, snapshot) ==
    IF brk = "none" THEN self ELSE LoadEach(self, snapshot)

ledger == <<config, positions, appended, daily_pnl, total_pnl,
            portfolio_value, peak_value, emergency_stop>>

monitor == <<mon_pc, mon_visited, mon_held, mon_size, mon_count>>

\* the RiskManager object and its tasks
risk_manager == <<ledger, broker, metrics, notified, monitor, updates, stop_nesting>>

\* the DecisionEngine object
engine == <<engine_config, signal_history>>

vars == <<risk_manager, engine, last>>

Init ==
    /\ config = RiskLimits
    /\ positions = <<>>
    /\ appended = <<>>
    /\ daily_pnl = 0
    /\ total_pnl = 0
    /\ portfolio_value = StartingPortfolioValue
    /\ peak_value = StartingPortfolioValue
    /\ emergency_stop = FALSE
    /\ broker = "none"
    /\ metrics = "none"
    /\ notified = <<>>
    /\ mon_pc = "off"
    /\ mon_visited = {}
    /\ mon_held = ""
    /\ mon_size = 0
    /\ mon_count = 0
    /\ updates = 0
    /\ stop_nesting = 0
    /\ engine_config = DecisionEngineConfig
    /\ signal_history = <<>>
    /\ last = [op |-> "__init__", arg |-> <<>>, result |-> <<>>]

\* the fields of the object become those of the value an operation returns;
\* no operation of RiskManager touches the DecisionEngine
Becomes(self) ==
    /\ UNCHANGED engine
    /\ config' = self.config
    /\ positions' = self.positions
    /\ appended' = self.risk_events
    /\ metrics' = self.metrics
    /\ notified' = self.notified
    /\ daily_pnl' = self.daily_pnl
    /\ total_pnl' = self.total_pnl
    /\ portfolio_value' = self.portfolio_value
    /\ peak_value' = self.peak_value
    /\ emergency_stop' = self.emergency_stop
    /\ stop_nesting' = self.stop_calls.deepest

SymbolsOf(ps) == {ps[i].symbol : i \in 1..Len(ps)}

\* What a ledger operation of another task does to the dict iterator of a
\* suspended _update_position_prices: entries deleted behind the cursor are
\* gone, and the loop's Position object is detached when its key is deleted
\* or (replaced) assigned a new Position.
IteratorSees(after, replaced) ==
    /\ mon_pc' = mon_pc
    /\ mon_size' = mon_size
    /\ mon_count' = mon_count
    /\ mon_visited' = mon_visited \cap SymbolsOf(after.positions)
    /\ mon_held' = IF mon_held \in SymbolsOf(after.positions) \ replaced
                   THEN mon_held ELSE ""

Running == mon_pc # "off"

\* initialize(broker, metrics): load the positions, start the monitoring task
InitializeFrom(brokers, collaborators, snapshots) ==
    /\ mon_pc = "off"
    /\ \E brk \in brokers, collaborator \in collaborators, snapshot \in snapshots :
          /\ broker' = brk
          /\ Becomes(_load_positions([Self EXCEPT !.metrics = collaborator],
                                     brk, snapshot))
          /\ updates' = updates
          /\ last' = [op |-> "initialize", arg |-> <<brk, snapshot>>, result |-> TRUE]
    /\ mon_pc' = "sleep"
    /\ UNCHANGED <<mon_visited, mon_held, mon_size, mon_count>>

InitializeWith(collaborators) ==
    InitializeFrom({"none", "up"}, collaborators, BrokerSnapshots)

\* initialize as main.py calls it, with its MetricsCollector
Initialize == InitializeWith(WorkingMetrics)

\* initialize with no Metrics collaborator or with a failing one
InitializeUnnotified == InitializeWith(FailingMetrics)

\* initialize with a broker that holds a book of up to MaxLoaded positions
InitializeLoaded == InitializeFrom({"up"}, WorkingMetrics, LoadedSnapshots)

UpdatePosition ==
    /\ Running
    /\ updates < MaxUpdates
    /\ \E symbol \in Symbols, position_data \in PositionData :
          LET after == update_position(Self, symbol, position_data)
          IN /\ Becomes(after)
             /\ IteratorSees(after, {symbol})
             /\ last' = [op |-> "update_position", arg |-> <<symbol, position_data>>,
                         result |-> <<>>]
    /\ updates' = updates + 1
    /\ UNCHANGED broker

ClosePositionOf(symbols) ==
    /\ Running
    /\ \E symbol \in symbols :
          LET after == close_position(Self, symbol)
          IN /\ Becomes(after)
             /\ IteratorSees(after, {})
             /\ last' = [op |-> "close_position", arg |-> <<symbol>>,
                         result |-> HasKey(positions, symbol)]
    /\ UNCHANGED <<broker, updates>>

ClosePosition == ClosePositionOf(Symbols)

\* close_position for a symbol of the loaded book
CloseLoaded == ClosePositionOf(LoadedSymbols)

\* filter_signals suspending after the first signal's checks, where a
\* close_position of another task runs before the sizing and the rest of
\* the batch
FilterSignals_suspending ==
    /\ Running
    /\ \E signals \in SignalBatches, symbol \in Symbols :
          LET signal == Head(signals)
              risk == _check_signal_risk(Self, signal)
              other == close_position(risk.self, symbol)
              done == FilterLoop(other, Tail(signals),
                         IF risk.ok
                         THEN <<WithPositionSize(signal,
                                   _calculate_position_size(other, signal))>>
                         ELSE <<>>)
          IN /\ Becomes(done.self)
             /\ IteratorSees(done.self, {})
             /\ last' = [op |-> "filter_signals", arg |-> signals,
                         result |-> done.filtered_signals]
    /\ UNCHANGED <<broker, updates>>

FilterSignals ==
    /\ Running
    /\ \E signals \in SignalBatches :
          LET done == filter_signals(Self, signals)
          IN /\ Becomes(done.self)
             /\ last' = [op |-> "filter_signals", arg |-> signals,
                         result |-> done.filtered_signals]
    /\ UNCHANGED <<broker, monitor, updates>>

CheckRiskLimits ==
    /\ Running
    /\ \E signal \in CheckedSignals :
          LET done == check_risk_limits(Self, signal)
          IN /\ Becomes(done.self)
             /\ last' = [op |-> "check_risk_limits", arg |-> signal,
                         result |-> done.ok]
    /\ UNCHANGED <<broker, monitor, updates>>

UpdateParameters ==
    /\ Running
    /\ \E new_params \in ParameterUpdates :
          /\ Becomes(update_parameters(Self, new_params))
          /\ last' = [op |-> "update_parameters", arg |-> new_params, result |-> <<>>]
    /\ UNCHANGED <<broker, monitor, updates>>

\* _calculate_position_size called on its own
CalculatePositionSize ==
    /\ Running
    /\ \E signal \in SizingSignals :
          /\ Becomes(Self)
          /\ last' = [op |-> "_calculate_position_size", arg |-> signal,
                      result |-> _calculate_position_size(Self, signal)]
    /\ UNCHANGED <<broker, monitor, updates>>

\* the monitoring task leaves the for loop of _update_position_prices (by
\* exhaustion or by an exception the method catches), runs the two checks
\* and goes to sleep
MonitorFinishes(self, price, how) ==
    /\ Becomes(FinishTick(self))
    /\ mon_pc' = "sleep"
    /\ mon_visited' = {}
    /\ mon_held' = ""
    /\ mon_size' = 0
    /\ mon_count' = 0
    /\ last' = [op |-> "monitor_tick", arg |-> price, result |-> how]

\* the monitoring task yields the next item of self.positions.items() and
\* awaits the broker's price for it
MonitorAwaits(self, symbol, size) ==
    /\ Becomes(self)
    /\ mon_pc' = "price"
    /\ mon_visited' = mon_visited \cup {symbol}
    /\ mon_held' = symbol
    /\ mon_size' = size
    /\ mon_count' = mon_count + 1
    /\ last' = [op |-> "monitor_price", arg |-> <<symbol>>, result |-> <<>>]

\* asyncio.sleep returns and one pass of the loop of _risk_monitoring_loop
\* begins; under the emergency stop the pass does nothing
MonitorTick ==
    /\ mon_pc = "sleep"
    /\ IF emergency_stop
       THEN /\ Becomes(Self)
            /\ last' = [op |-> "monitor_tick", arg |-> <<>>, result |-> "stopped"]
            /\ UNCHANGED monitor
       ELSE IF positions = <<>>
       THEN MonitorFinishes(Self, <<>>, "refreshed")
       ELSE IF broker = "none"
       THEN MonitorFinishes(Self, <<>>, "AttributeError")
       ELSE MonitorAwaits(Self, positions[1].symbol, Len(positions))
    /\ UNCHANGED <<broker, updates>>

\* the broker answers the price lookup: the loop writes the price into the
\* Position object it holds and asks the dict iterator for the next item
MonitorPrice ==
    /\ mon_pc = "price"
    /\ \E current_price \in BrokerPrices, keys_changed_raises \in BOOLEAN :
          LET written == IF current_price # 0 /\ mon_held # ""
                         THEN RefreshPrice(Self, mon_held, current_price)
                         ELSE Self
              rest == SelectSeq(positions, LAMBDA p : p.symbol \notin mon_visited)
          IN IF Len(positions) # mon_size
             THEN MonitorFinishes(written, <<current_price>>, "RuntimeError")
             ELSE IF rest = <<>>
             THEN MonitorFinishes(written, <<current_price>>, "refreshed")
             ELSE IF mon_count >= mon_size /\ keys_changed_raises
             THEN MonitorFinishes(written, <<current_price>>, "RuntimeError")
             ELSE MonitorAwaits(written, Head(rest).symbol, mon_size)
    /\ UNCHANGED <<broker, updates>>

\* ------------------------------------------------------------------------
\* DecisionEngine (core/decision_engine.py): ranking of the signals
\* ------------------------------------------------------------------------
\* a TradingSignal, with the fields the ranking reads
TradingSignal(symbol, confidence, entry_price, stop_loss, take_profit, position_size) ==
    [symbol |-> symbol, confidence |-> confidence, entry_price |-> entry_price,
     stop_loss |-> stop_loss, take_profit |-> take_profit,
     position_size |-> position_size, metadata |-> [reason |-> "generated"]]

\* expected values: EURUSD and GBPUSD 14/5 each, XAUUSD 22/5 (a sell),
\* USDJPY 0, AUDUSD -8/5
GeneratedSignals ==
    { TradingSignal("EURUSD", Rat(8, 10), Rat(100, 1), Rat(98, 1), Rat(104, 1),
                    Rat(1, 1)),
      TradingSignal("GBPUSD", Rat(6, 10), Rat(100, 1), Rat(95, 1), Rat(110, 1),
                    Rat(7, 10)),
      TradingSignal("XAUUSD", Rat(7, 10), Rat(100, 1), Rat(102, 1), Rat(96, 1),
                    Rat(2, 1)),
      TradingSignal("USDJPY", Rat(5, 10), Rat(100, 1), Rat(98, 1), Rat(102, 1),
                    Rat(1, 1)),
      TradingSignal("AUDUSD", Rat(3, 10), Rat(100, 1), Rat(96, 1), Rat(104, 1),
                    Rat(1, 1)) }

\* the lists handed to _rank_signals
SignalLists == UNION { [1..n -> GeneratedSignals] : n \in 0..MaxRanked }

\* _calculate_expected_value
_calculate_expected_value(signal) ==
    LET win_probability == signal.confidence
        win_amount == RAbs(RSub(signal.take_profit, signal.entry_price))
        loss_amount == RAbs(RSub(signal.entry_price, signal.stop_loss))
        expected_value ==
            RSub(RMul(win_probability, win_amount),
                 RMul(RSub(FromInt(1), win_probability), loss_amount))
    IN RMul(expected_value, signal.position_size)

\* signal.metadata['expected_value'] = expected_value
WithExpectedValue(signal) ==
    [signal EXCEPT !.metadata =
        [k \in DOMAIN signal.metadata \cup {"expected_value"} |->
            IF k = "expected_value"
            THEN _calculate_expected_value(signal)
            ELSE signal.metadata[k]]]

\* s.metadata.get('expected_value', 0)
SortKey(signal) ==
    IF "expected_value" \in DOMAIN signal.metadata
    THEN signal.metadata.expected_value
    ELSE RZero

Reverse(seq) == [i \in 1..Len(seq) |-> seq[Len(seq) + 1 - i]]

\* list.sort inserts an item behind the items that do not compare greater
\* (binary insertion, the whole of timsort on a list this short)
InsertSorted(seq, item) ==
    LET ahead == Cardinality({i \in 1..Len(seq) : RLe(SortKey(seq[i]), SortKey(item))})
    IN [i \in 1..(Len(seq) + 1) |->
           IF i <= ahead THEN seq[i]
           ELSE IF i = ahead + 1 THEN item
           ELSE seq[i - 1]]

RECURSIVE SortAscending(_, _)
SortAscending(done, todo) ==
    IF todo = <<>> THEN done
    ELSE SortAscending(InsertSorted(done, Head(todo)), Tail(todo))

\* sorted(signals, key=..., reverse=True): CPython reverses the list, sorts
\* it ascending and reverses the result
sorted_reverse(seq) == Reverse(SortAscending(<<>>, Reverse(seq)))

\* _rank_signals sorting ascending and reversing the result afterwards only
_rank_signals_reversed_after(signals) ==
    Reverse(SortAscending(<<>>, [i \in 1..Len(signals) |->
                                    WithExpectedValue(signals[i])]))

\* _rank_signals
_rank_signals(signals) ==
    sorted_reverse([i \in 1..Len(signals) |-> WithExpectedValue(signals[i])])

\* ------------------------------------------------------------------------
\* DecisionEngine: generation of the signals.  What numpy computes from the
\* price history (means, standard deviation, the EMAs) is read from the
\* symbol's data; the arithmetic the engine does on it is modelled.
\* ------------------------------------------------------------------------
\* the outcome of a try block: whether it raised, and the signals appended
NoSignal == [raised |-> FALSE, signals |-> <<>>]
Raises == [raised |-> TRUE, signals |-> <<>>]
OneSignal(signal) == [raised |-> FALSE, signals |-> <<signal>>]

\* except Exception: log the error; return signals
Caught(outcome) == [raised |-> FALSE, signals |-> outcome.signals]

\* a TradingSignal as a strategy builds it
StrategySignal(strategy, signal_type, generated) ==
    [k \in DOMAIN generated \cup {"strategy", "signal_type"} |->
        IF k = "strategy" THEN strategy
        ELSE IF k = "signal_type" THEN signal_type
        ELSE generated[k]]

Percent(price, percent) == RMul(price, Rat(percent, 100))

\* _calculate_rsi
_calculate_rsi(data) ==
    IF data.closes < 15 THEN FromInt(50)
    ELSE IF data.avg_loss = 0 THEN FromInt(100)
    ELSE LET rs == Rat(data.avg_gain, data.avg_loss)
         IN RSub(FromInt(100), RDiv(FromInt(100), RAdd(FromInt(1), rs)))

\* _calculate_macd
_calculate_macd(data) == IF data.closes < 26 THEN 0 ELSE data.macd

\* _calculate_sma, for a history that is not empty
_calculate_sma(data, period) ==
    IF data.closes < period THEN data.close
    ELSE IF period = 20 THEN data.sma_20 ELSE data.sma_50

\* _calculate_bollinger_bands, for a history that is not empty
_calculate_bollinger_bands(data) ==
    IF data.closes < 20
    THEN [upper |-> data.close, middle |-> data.close, lower |-> data.close]
    ELSE [upper |-> data.sma_20 + 2 * data.std_20,
          middle |-> data.sma_20,
          lower |-> data.sma_20 - 2 * data.std_20]

\* data.get('close', [0])[-1] if data.get('close') else 0
CurrentPrice(data) == IF data.closes = 0 THEN 0 ELSE data.close

RECURSIVE SumConfidence(_)
SumConfidence(ensemble) ==
    IF ensemble = <<>> THEN RZero
    ELSE RAdd(Head(ensemble).confidence, SumConfidence(Tail(ensemble)))

\* the try block of _generate_ml_signals: with too short a history there are
\* no features, with no usable model no prediction; when the averaged
\* confidence exceeds min_confidence the TradingSignal is built, and the
\* test 'if features' in its metadata raises ValueError on the feature array
MlTry(cfg, symbol, data) ==
    IF data.closes < cfg.lookback_period THEN NoSignal
    ELSE IF data.ensemble = <<>> THEN NoSignal
    ELSE LET avg_confidence ==
                 RDiv(SumConfidence(data.ensemble), FromInt(Len(data.ensemble)))
         IN IF RGt(avg_confidence, cfg.min_confidence) THEN Raises ELSE NoSignal

_generate_ml_signals(cfg, symbol, data) == Caught(MlTry(cfg, symbol, data))

\* the try block of _generate_momentum_signals: on an empty history
\* _calculate_sma raises IndexError
MomentumTry(cfg, symbol, data) ==
    IF data.closes = 0 THEN Raises
    ELSE LET rsi == _calculate_rsi(data)
             macd == _calculate_macd(data)
             sma_20 == _calculate_sma(data, 20)
             sma_50 == _calculate_sma(data, 50)
             current_price == CurrentPrice(data)
             entry == FromInt(current_price)
             size == RMul(cfg.max_position_size, Rat(1, 2))
             calm == RGt(rsi, FromInt(30)) /\ RLt(rsi, FromInt(70))
             bullish_momentum ==
                 calm /\ macd > 0 /\ current_price > sma_20 /\ sma_20 > sma_50
             bearish_momentum ==
                 calm /\ macd < 0 /\ current_price < sma_20 /\ sma_20 < sma_50
         IN IF bullish_momentum
            THEN OneSignal(StrategySignal("momentum", "buy",
                     TradingSignal(symbol, RMin(RDiv(rsi, FromInt(100)), Rat(8, 10)),
                                   entry, Percent(entry, 98), Percent(entry, 105), size)))
            ELSE IF bearish_momentum
            THEN OneSignal(StrategySignal("momentum", "sell",
                     TradingSignal(symbol,
                                   RMin(RDiv(RSub(FromInt(100), rsi), FromInt(100)),
                                        Rat(8, 10)),
                                   entry, Percent(entry, 102), Percent(entry, 95), size)))
            ELSE NoSignal

\* _generate_momentum_signals without its own try and except
_generate_momentum_signals_unguarded(cfg, symbol, data) ==
    MomentumTry(cfg, symbol, data)

_generate_momentum_signals(cfg, symbol, data) ==
    Caught(MomentumTry(cfg, symbol, data))

\* the try block of _generate_mean_reversion_signals: on an empty history
\* _calculate_bollinger_bands raises IndexError
MeanReversionTry(cfg, symbol, data) ==
    IF data.closes = 0 THEN Raises
    ELSE LET bb == _calculate_bollinger_bands(data)
             rsi == _calculate_rsi(data)
             current_price == CurrentPrice(data)
             size == RMul(cfg.max_position_size, Rat(3, 10))
             oversold == current_price <= bb.lower /\ RLt(rsi, FromInt(30))
             overbought == current_price >= bb.upper /\ RGt(rsi, FromInt(70))
         IN IF oversold
            THEN OneSignal(StrategySignal("mean_reversion", "buy",
                     TradingSignal(symbol, Rat(7, 10), FromInt(current_price),
                                   Percent(FromInt(bb.lower), 99), FromInt(bb.middle),
                                   size)))
            ELSE IF overbought
            THEN OneSignal(StrategySignal("mean_reversion", "sell",
                     TradingSignal(symbol, Rat(7, 10), FromInt(current_price),
                                   Percent(FromInt(bb.upper), 101), FromInt(bb.middle),
                                   size)))
            ELSE NoSignal

_generate_mean_reversion_signals(cfg, symbol, data) ==
    Caught(MeanReversionTry(cfg, symbol, data))

\* the try block of _generate_breakout_signals
BreakoutTry(cfg, symbol, data) ==
    LET high_20 == IF data.bars >= 20 THEN data.high_20 ELSE 0
        low_20 == IF data.bars >= 20 THEN data.low_20 ELSE 0
        current_price == CurrentPrice(data)
        volume == IF data.bars = 0 THEN 0 ELSE data.volume
        avg_volume == IF data.bars >= 20 THEN data.avg_volume ELSE volume
        entry == FromInt(current_price)
        size == RMul(cfg.max_position_size, Rat(7, 10))
        confirmed == 2 * volume > 3 * avg_volume
    IN IF current_price > high_20 /\ confirmed
       THEN OneSignal(StrategySignal("breakout", "buy",
                TradingSignal(symbol, Rat(8, 10), entry, Percent(FromInt(high_20), 98),
                              Percent(entry, 108), size)))
       ELSE IF current_price < low_20 /\ confirmed
       THEN OneSignal(StrategySignal("breakout", "sell",
                TradingSignal(symbol, Rat(8, 10), entry, Percent(FromInt(low_20), 102),
                              Percent(entry, 92), size)))
       ELSE NoSignal

_generate_breakout_signals(cfg, symbol, data) ==
    Caught(BreakoutTry(cfg, symbol, data))

\* the try block of _generate_arbitrage_signals: with ask > 0 and a bid of
\* None the comparison bid > 0 raises TypeError
ArbitrageTry(cfg, symbol, data) ==
    IF data.ask > 0 /\ data.bid_none THEN Raises
    ELSE LET spread == IF data.ask > 0 /\ data.bid > 0 THEN data.ask - data.bid ELSE 0
             spread_pct == IF data.ask > 0
                           THEN RMul(Rat(spread, data.ask), FromInt(100))
                           ELSE RZero
             ask == FromInt(data.ask)
         IN IF RGt(spread_pct, Rat(1, 10))
            THEN OneSignal(StrategySignal("arbitrage", "buy",
                     TradingSignal(symbol, Rat(6, 10), ask, Percent(ask, 101),
                                   Percent(ask, 99),
                                   RMul(cfg.max_position_size, Rat(2, 10)))))
            ELSE NoSignal

_generate_arbitrage_signals(cfg, symbol, data) ==
    Caught(ArbitrageTry(cfg, symbol, data))

\* the keys of config.strategy_weights, in the order in which
\* _generate_strategy_signals asks for them
StrategyTypes ==
    <<"ml_prediction", "momentum", "mean_reversion", "breakout", "arbitrage">>

\* the call _generate_strategy_signals makes for a strategy
StrategyCall(strategy, cfg, symbol, data) ==
    CASE strategy = "ml_prediction" -> _generate_ml_signals(cfg, symbol, data)
      [] strategy = "momentum" -> _generate_momentum_signals(cfg, symbol, data)
      [] strategy = "mean_reversion" ->
            _generate_mean_reversion_signals(cfg, symbol, data)
      [] strategy = "breakout" -> _generate_breakout_signals(cfg, symbol, data)
      [] OTHER -> _generate_arbitrage_signals(cfg, symbol, data)

RECURSIVE RunStrategies(_, _, _, _, _)
\* the try block of _generate_strategy_signals: a call that raises ends it,
\* and the signals extended so far are returned
RunStrategies(cfg, symbol, data, strategies, signals) ==
    IF strategies = <<>>
    THEN signals
    ELSE LET outcome == StrategyCall(Head(strategies), cfg, symbol, data)
         IN IF outcome.raised
            THEN signals
            ELSE RunStrategies(cfg, symbol, data, Tail(strategies),
                               signals \o outcome.signals)

_generate_strategy_signals(cfg, symbol, data) ==
    RunStrategies(cfg, symbol, data, StrategyTypes, <<>>)

RECURSIVE CollectSignals(_, _)
\* the loop of generate_signals over market_data['symbols']
CollectSignals(cfg, market_data) ==
    IF market_data = <<>>
    THEN <<>>
    ELSE _generate_strategy_signals(cfg, Head(market_data).symbol,
                                    Head(market_data).data)
            \o CollectSignals(cfg, Tail(market_data))

\* what _filter_signals does to a signal it keeps
Limited(cfg, signal) ==
    LET clamped == IF RGt(signal.position_size, cfg.max_position_size)
                   THEN [signal EXCEPT !.position_size = cfg.max_position_size]
                   ELSE signal
    IN IF RGt(RMul(clamped.position_size, cfg.risk_per_trade),
              cfg.risk_per_trade)
       THEN [clamped EXCEPT !.position_size =
                RDiv(cfg.risk_per_trade, cfg.risk_per_trade)]
       ELSE clamped

\* _filter_signals without the minimum confidence check
_filter_signals_any_confidence(cfg, signals) ==
    [i \in 1..Len(signals) |-> Limited(cfg, signals[i])]

\* _filter_signals
_filter_signals(cfg, signals) ==
    LET kept == SelectSeq(signals,
                          LAMBDA s : ~RLt(s.confidence, cfg.min_confidence))
    IN [i \in 1..Len(kept) |-> Limited(cfg, kept[i])]

\* generate_signals: the list it returns and appends to signal_history.
\* self.metrics is the MetricsCollector main.py hands to initialize, whose
\* record_signals catches whatever it raises
generate_signals(cfg, market_data) ==
    LET signals == CollectSignals(cfg, market_data)
        ranked_signals == _rank_signals(_filter_signals(cfg, signals))
    IN SubSeq(ranked_signals, 1,
              IF Len(ranked_signals) < cfg.max_signals_per_cycle
              THEN Len(ranked_signals) ELSE cfg.max_signals_per_cycle)

\* DecisionEngine.update_parameters: setattr on self.config for the keys it has
engine_update_parameters(cfg, new_params) ==
    [key \in DOMAIN cfg |->
        IF key \in DOMAIN new_params THEN new_params[key] ELSE cfg[key]]

GenerateSignals ==
    /\ \E market_data \in MarketData :
          LET final_signals == generate_signals(engine_config, market_data)
          IN /\ signal_history' = final_signals
             /\ last' = [op |-> "generate_signals", arg |-> market_data,
                         result |-> final_signals]
    /\ UNCHANGED <<risk_manager, engine_config>>

UpdateEngineParameters ==
    /\ \E new_params \in EngineParameterUpdates :
          /\ engine_config' = engine_update_parameters(engine_config, new_params)
          /\ last' = [op |-> "DecisionEngine.update_parameters", arg |-> new_params,
                      result |-> <<>>]
    /\ UNCHANGED <<risk_manager, signal_history>>

\* _rank_signals called on a list of generated signals
RankSignals ==
    /\ \E signals \in SignalLists :
          last' = [op |-> "_rank_signals", arg |-> signals,
                   result |-> _rank_signals(signals)]
    /\ UNCHANGED <<risk_manager, engine>>

\* ------------------------------------------------------------------------
\* Properties
\* ------------------------------------------------------------------------
InSeq(x, seq) == \E i \in 1..Len(seq) : seq[i] = x

RECURSIVE SumUnrealized(_)
SumUnrealized(ps) ==
    IF ps = <<>> THEN 0 ELSE Head(ps).unrealized_pnl + SumUnrealized(Tail(ps))

\* C1: in every reachable state, emergency_stop = TRUE implies that the
\* positions map is empty.
C1_StoppedHoldsNothing == emergency_stop => positions = <<>>

\* C2: no operation adds a symbol to positions while the emergency stop is
\* set: in a step taken with emergency_stop = TRUE every symbol held
\* afterwards was held before.
C2_NoOpeningWhileStopped ==
    [][emergency_stop => SymbolsOf(positions') \subseteq SymbolsOf(positions)]_vars

\* C3: the emergency stop is a one-way latch: no step of any operation takes
\* emergency_stop from TRUE back to FALSE.
C3_OneWayLatch == [][emergency_stop => emergency_stop']_vars

\* C3 witness: update_parameters ran with an "emergency_stop" key while the
\* stop was set.
C3_Witness ==
    /\ emergency_stop
    /\ last.op = "update_parameters"
    /\ "emergency_stop" \in DOMAIN last.arg

\* C4: while emergency_stop is TRUE, check_risk_limits returns False and
\* filter_signals returns the empty list, neither appends a risk event and
\* neither changes the ledger.
C4_StoppedRejectsEverySignal ==
    [][(emergency_stop /\ last'.op \in {"filter_signals", "check_risk_limits"})
          => /\ appended' = <<>>
             /\ last'.op = "filter_signals" => last'.result = <<>>
             /\ last'.op = "check_risk_limits" => last'.result = FALSE
             /\ <<config, positions, daily_pnl, total_pnl, portfolio_value,
                  peak_value, emergency_stop>>'
                    = <<config, positions, daily_pnl, total_pnl, portfolio_value,
                        peak_value, emergency_stop>>]_vars

\* C4 witness: filter_signals ran on a batch of several signals under the
\* emergency stop, in a ledger whose daily loss limit is breached as well.
C4_Witness ==
    /\ emergency_stop
    /\ last.op = "filter_signals"
    /\ Len(last.arg) > 1
    /\ DailyLossBreached(Self)

\* the object in the state in which the step's operation calls
\* _update_portfolio_metrics, for the steps of update_position, of
\* close_position on a held symbol and of a monitor tick that ends
UpmEntry ==
    CASE last'.op = "update_position" ->
            StorePosition(Self, last'.arg[1], last'.arg[2])
      [] last'.op = "close_position" -> FoldPosition(Self, last'.arg[1])
      [] OTHER ->
            IF last'.arg # <<>> /\ last'.arg[1] # 0 /\ mon_held # ""
            THEN RefreshPrice(Self, mon_held, last'.arg[1])
            ELSE Self

RunsUpm ==
    \/ last'.op = "update_position"
    \/ last'.op = "close_position" /\ last'.result = TRUE
    \/ last'.op = "monitor_tick" /\ last'.result # "stopped"

\* C5: whenever _update_portfolio_metrics runs (from update_position,
\* close_position or a monitor tick) in a state with total_pnl <=
\* -emergency_stop_loss * portfolio_value, then when the operation returns
\* emergency_stop is TRUE, an EMERGENCY_STOP event has been appended, no
\* position is left and the unrealized PnL of every position open at that
\* moment has been added to total_pnl, daily_pnl and portfolio_value.
C5_TriggerStopsAndLiquidates ==
    [][(RunsUpm /\ EmergencyCondition(UpmEntry))
          => /\ emergency_stop'
             /\ InSeq(EMERGENCY_STOP, appended')
             /\ positions' = <<>>
             /\ total_pnl' = UpmEntry.total_pnl + SumUnrealized(UpmEntry.positions)
             /\ daily_pnl' = UpmEntry.daily_pnl + SumUnrealized(UpmEntry.positions)
             /\ portfolio_value'
                   = UpmEntry.portfolio_value + SumUnrealized(UpmEntry.positions)]_vars

\* C5 witness: update_position stored a position in a ledger that met the
\* trigger condition, and the stop sequence ran and closed it.
C5_Witness ==
    /\ last.op = "update_position"
    /\ InSeq(EMERGENCY_STOP, appended)
    /\ emergency_stop
    /\ positions = <<>>

\* C6: a position still open under the emergency stop is closed by a retry
\* of the liquidation on a monitor tick: a tick that begins with
\* emergency_stop = TRUE and positions open leaves none open.
C6_TickRetriesLiquidation ==
    [][(mon_pc = "sleep" /\ last'.op = "monitor_tick"
            /\ emergency_stop /\ positions # <<>>)
          => positions' = <<>>]_vars

\* C7: every signal returned by filter_signals carries a position_size of at
\* most max_position_size * portfolio_value.
C7_ReturnedSizeWithinCap ==
    last.op = "filter_signals"
        => \A i \in 1..Len(last.result) :
              RLe(last.result[i].position_size,
                  RMul(config.max_position_size, FromInt(portfolio_value)))

\* C8: update_position admits a position for a symbol not already held only
\* when len(positions) < max_positions beforehand.
C8_AdmittedBelowMaxPositions ==
    [][(last'.op = "update_position" /\ ~HasKey(positions, last'.arg[1]))
          => Len(positions) < config.max_positions]_vars

\* C9: a signal whose stop_loss equals its entry_price (also when stop_loss
\* is absent) does not appear in the list filter_signals returns.
C9_ZeroStopDistanceRejected ==
    last.op = "filter_signals"
        => \A i \in 1..Len(last.result) :
              Get(last.result[i], "stop_loss", last.result[i].entry_price)
                  # last.result[i].entry_price

\* the first failing check of the admission order emergency stop, daily
\* loss, drawdown, position count, position size, correlation, volatility
FirstFailingCheck(self, signal) ==
    IF self.emergency_stop THEN "emergency_stop"
    ELSE IF DailyLossBreached(self) THEN "daily_loss"
    ELSE IF DrawdownBreached(self) THEN "drawdown"
    ELSE IF Len(self.positions) >= self.config.max_positions THEN "position_count"
    ELSE IF PositionSizeExceeded(self, signal) THEN "position_size"
    ELSE IF \E i \in 1..Len(self.positions) :
               RGt(_calculate_correlation(Get(signal, "symbol", ""),
                                          self.positions[i].symbol),
                   self.config.max_correlation)
         THEN "correlation"
    ELSE IF _check_volatility_limits(self, signal) THEN "volatility"
    ELSE "none"

\* the risk events an admission appends when that check is the first to fail
EventsOfCheck(check) ==
    CASE check = "daily_loss" -> <<DAILY_LOSS_LIMIT_EXCEEDED>>
      [] check = "drawdown" -> <<DRAWDOWN_LIMIT_EXCEEDED>>
      [] check = "position_count" -> <<POSITION_LIMIT_EXCEEDED>>
      [] check = "correlation" -> <<CORRELATION_LIMIT_EXCEEDED>>
      [] check = "volatility" -> <<VOLATILITY_LIMIT_EXCEEDED>>
      [] OTHER -> <<>>

\* C10: check_risk_limits rejects exactly when some check of the fixed order
\* fails, and appends exactly the risk event of the earliest failing check
\* (none when the signal is accepted).
C10_FirstFailingCheckDecides ==
    [][last'.op = "check_risk_limits"
          => /\ last'.result = (FirstFailingCheck(Self, last'.arg) = "none")
             /\ appended' = EventsOfCheck(FirstFailingCheck(Self, last'.arg))]_vars

\* the drawdown and daily loss conditions of the current ledger, written out
DrawdownAtLimit ==
    (peak_value - portfolio_value) * config.max_drawdown.d
        >= config.max_drawdown.n * peak_value

DailyLossAtLimit ==
    daily_pnl * config.max_daily_loss.d
        <= -(config.max_daily_loss.n * portfolio_value)

\* a step that submits the signals of last'.arg for admission
Admission == last'.op \in {"filter_signals", "check_risk_limits"}

Submitted == IF last'.op = "filter_signals" THEN Len(last'.arg) ELSE 1

Rejected ==
    IF last'.op = "filter_signals" THEN last'.result = <<>> ELSE last'.result = FALSE

\* C11 as claimed: whenever a signal is submitted for admission with
\* emergency_stop false and (peak_value - portfolio_value) / peak_value >=
\* max_drawdown, the signal is rejected and a DRAWDOWN_LIMIT_EXCEEDED event
\* is appended.
C11_DrawdownAlwaysEmits ==
    [][(Admission /\ ~emergency_stop /\ DrawdownAtLimit)
          => /\ Rejected
             /\ InSeq(DRAWDOWN_LIMIT_EXCEEDED, appended')]_vars

\* C11 amended: whenever a signal is submitted for admission with
\* emergency_stop false, the daily loss limit not reached and the drawdown
\* at or above max_drawdown, every submitted signal is rejected and one
\* DRAWDOWN_LIMIT_EXCEEDED event per signal, and nothing else, is appended;
\* with the daily loss limit reached as well the signal is still rejected.
C11_DrawdownRejects ==
    [][(Admission /\ ~emergency_stop /\ DrawdownAtLimit)
          => /\ Rejected
             /\ ~DailyLossAtLimit
                   => appended' = [i \in 1..Submitted |-> DRAWDOWN_LIMIT_EXCEEDED]]_vars

\* C11 witness: check_risk_limits rejected a signal on the drawdown check in
\* a ledger that is not stopped and whose daily loss limit is not reached.
C11_Witness ==
    /\ last.op = "check_risk_limits"
    /\ last.result = FALSE
    /\ appended = <<DRAWDOWN_LIMIT_EXCEEDED>>
    /\ ~emergency_stop
    /\ DrawdownAtLimit
    /\ ~DailyLossAtLimit

\* C12: when len(positions) >= max_positions and the emergency-stop, daily
\* loss and drawdown checks pass, every submitted signal (whatever its
\* symbol, confidence and size) is rejected and one POSITION_LIMIT_EXCEEDED
\* event per signal, and nothing else, is appended.
C12_FullBookRejects ==
    [][(/\ Admission
        /\ ~emergency_stop /\ ~DailyLossAtLimit /\ ~DrawdownAtLimit
        /\ Len(positions) >= config.max_positions)
          => /\ Rejected
             /\ appended' = [i \in 1..Submitted |-> POSITION_LIMIT_EXCEEDED]]_vars

\* C12 witness: with exactly max_positions positions held, check_risk_limits
\* rejected a signal for a symbol not held on the position count check.
C12_Witness ==
    /\ last.op = "check_risk_limits"
    /\ last.arg.symbol \notin SymbolsOf(positions)
    /\ Len(positions) = config.max_positions
    /\ ~emergency_stop /\ ~DailyLossAtLimit /\ ~DrawdownAtLimit
    /\ last.result = FALSE
    /\ appended = <<POSITION_LIMIT_EXCEEDED>>

\* C13: peak_value never decreases, and in every state between ledger
\* operations peak_value >= portfolio_value and peak_value > 0 (so
\* peak_value is at least every portfolio_value observed so far).
C13_PeakTracksPortfolioValue ==
    /\ [](peak_value >= portfolio_value /\ peak_value > 0)
    /\ [][peak_value' >= peak_value]_vars

\* C13 witness: a profitable close raised the peak above the starting value
\* and a later losing close left portfolio_value below it.
C13_Witness ==
    /\ last.op = "close_position"
    /\ last.result = TRUE
    /\ peak_value > StartingPortfolioValue
    /\ portfolio_value < peak_value

\* a value no risk limit can take: a position count below one, a negative
\* fraction
OutOfRange(key, value) ==
    IF key = "max_positions" THEN value < 1 ELSE RLt(value, RZero)

\* C14: an update_parameters call whose parameter map holds an unknown key
\* or an out-of-range value is refused as a whole: the configuration after
\* the call equals the configuration before it.
C14_BadUpdateRefusedWhole ==
    [][(/\ last'.op = "update_parameters"
        /\ \E key \in DOMAIN last'.arg :
              \/ key \notin DOMAIN RiskLimits
              \/ OutOfRange(key, last'.arg[key]))
          => config' = config]_vars

\* a RiskManager and a signal that agree with the given ones on the six
\* inputs of the sizing and on nothing else
SizingInputsOnly(self) ==
    [config          |-> [RiskLimits EXCEPT
                             !.max_position_size = self.config.max_position_size,
                             !.max_daily_loss = self.config.max_daily_loss],
     positions       |-> <<>>,
     risk_events     |-> <<>>,
     metrics         |-> "none",
     notified        |-> <<>>,
     daily_pnl       |-> 0,
     total_pnl       |-> 0,
     portfolio_value |-> self.portfolio_value,
     peak_value      |-> self.portfolio_value,
     emergency_stop  |-> FALSE]

SizedFieldsOnly(signal) ==
    [k \in DOMAIN signal \cap {"confidence", "entry_price", "stop_loss"} |->
        signal[k]]

\* C15: _calculate_position_size leaves positions, daily_pnl, total_pnl,
\* portfolio_value, peak_value, emergency_stop, risk_events and the
\* RiskLimits unchanged, and the size it returns (called on its own or by
\* filter_signals) is the one it returns for the same confidence,
\* entry_price, stop_loss, portfolio_value, max_position_size and
\* max_daily_loss in any other ledger and for any other signal.
C15_SizingIsPure ==
    [][/\ last'.op = "_calculate_position_size"
          => /\ appended' = <<>>
             /\ <<config, positions, daily_pnl, total_pnl, portfolio_value,
                  peak_value, emergency_stop>>'
                    = <<config, positions, daily_pnl, total_pnl, portfolio_value,
                        peak_value, emergency_stop>>
             /\ last'.result
                    = _calculate_position_size(SizingInputsOnly(Self),
                                               SizedFieldsOnly(last'.arg))
       /\ last'.op = "filter_signals"
          => \A i \in 1..Len(last'.result) :
                last'.result[i].position_size
                    = _calculate_position_size(SizingInputsOnly(Self),
                                               SizedFieldsOnly(last'.result[i]))]_vars

\* C15 witness: the sizing returned a positive size in a ledger with
\* realized PnL, an open position and a changed configuration.
C15_Witness ==
    /\ last.op = "_calculate_position_size"
    /\ RGt(last.result, RZero)
    /\ daily_pnl # 0
    /\ positions # <<>>
    /\ config # RiskLimits

\* C16: for every confidence, also below 1/3, above 1/2 and outside [0, 1],
\* the Kelly fraction _calculate_position_size uses lies in [0, 0.25] after
\* clamping, and the size it returns is never negative.
C16_KellyClampedSizeNonNegative ==
    last.op = "_calculate_position_size"
        => /\ RGe(KellyFraction(Get(last.arg, "confidence", Rat(1, 2))), RZero)
           /\ RLe(KellyFraction(Get(last.arg, "confidence", Rat(1, 2))), KellyCap)
           /\ RGe(last.result, RZero)

\* C16 witness: sizing with a confidence above 1 (raw Kelly fraction above
\* the cap) returned a positive size, capped at 0.25 before the confidence
\* scaling.
C16_Witness ==
    /\ last.op = "_calculate_position_size"
    /\ RGt(last.arg.entry_price, RZero)
    /\ "confidence" \in DOMAIN last.arg
    /\ RGt(last.arg.confidence, FromInt(1))
    /\ RGt(KellyRaw(last.arg.confidence), KellyCap)
    /\ RGt(last.result, RZero)

\* C17: ledger mutations are serialized: while the monitor tick is between
\* the start and the end of its price refresh (_update_position_prices is
\* iterating positions and awaiting the broker) no operation of another
\* task adds or removes a position or changes the PnL, the portfolio value,
\* the peak or the stop flag.
C17_NoMutationDuringRefresh ==
    [][(mon_pc = "price" /\ last'.op \notin {"monitor_tick", "monitor_price"})
          => <<positions, daily_pnl, total_pnl, portfolio_value, peak_value,
               emergency_stop>>'
                = <<positions, daily_pnl, total_pnl, portfolio_value, peak_value,
                    emergency_stop>>]_vars

\* every check of check_risk_limits and of _check_signal_risk evaluated on
\* one and the same ledger state
SnapshotPasses(self, signal) ==
    /\ ~self.emergency_stop
    /\ ~DailyLossBreached(self)
    /\ ~DrawdownBreached(self)
    /\ Len(self.positions) < self.config.max_positions
    /\ ~PositionSizeExceeded(self, signal)
    /\ ~_check_correlation_limits(self, signal)
    /\ ~_check_volatility_limits(self, signal)

SnapshotAdmits(self, signal) ==
    /\ SnapshotPasses(self, signal)
    /\ RGe(Get(signal, "confidence", RZero), MinSignalConfidence)
    /\ ~(/\ HasKey(self.positions, Get(signal, "symbol", ""))
          /\ RLt(FromInt(self.positions[IndexOf(self.positions,
                                                 Get(signal, "symbol", ""))]
                             .unrealized_pnl),
                 RMul(RNeg(LosingPositionFraction), FromInt(self.portfolio_value))))

\* the list filter_signals returns when all it reads is that one state
SnapshotFilter(self, signals) ==
    LET kept == SelectSeq(signals, LAMBDA signal : SnapshotAdmits(self, signal))
    IN [i \in 1..Len(kept) |->
           WithPositionSize(kept[i], _calculate_position_size(self, kept[i]))]

\* C18: the admission sequence runs atomically: between the first check and
\* the returned decision of one check_risk_limits or filter_signals call no
\* ledger field changes, and the decision (with the sizes filter_signals
\* assigns) is the one obtained by evaluating every check on the single
\* ledger state in which the call began.
C18_AdmissionReadsOneState ==
    [][Admission
          => /\ <<config, positions, daily_pnl, total_pnl, portfolio_value,
                  peak_value, emergency_stop>>'
                    = <<config, positions, daily_pnl, total_pnl, portfolio_value,
                        peak_value, emergency_stop>>
             /\ last'.op = "check_risk_limits"
                    => last'.result = SnapshotPasses(Self, last'.arg)
             /\ last'.op = "filter_signals"
                    => last'.result = SnapshotFilter(Self, last'.arg)]_vars

\* C18 witness: filter_signals admitted and sized a signal while the monitor
\* task was suspended in its price refresh with positions open.
C18_Witness ==
    /\ last.op = "filter_signals"
    /\ Len(last.result) >= 1
    /\ positions # <<>>
    /\ mon_pc = "price"

\* the object as it would be with a working Metrics collaborator
Notified(self) == [self EXCEPT !.metrics = "up"]

\* the step leaves every ledger field as the given object has it
LedgerBecomes(self) ==
    <<config, positions, appended, daily_pnl, total_pnl, portfolio_value,
      peak_value, emergency_stop>>'
        = <<self.config, self.positions, self.risk_events, self.daily_pnl,
            self.total_pnl, self.portfolio_value, self.peak_value,
            self.emergency_stop>>

\* C19: with no Metrics collaborator, or one whose calls raise, admission
\* and the stop sequence do what they do with a working one:
\* check_risk_limits and filter_signals return the same decisions for every
\* signal of the batch and append the same risk events, update_position,
\* close_position and the monitor tick leave the same ledger, and an
\* emergency stop still appends its event, sets the flag and closes all
\* positions.
C19_MetricsFailureChangesNothing ==
    [][/\ last'.op = "check_risk_limits"
          => /\ LedgerBecomes(check_risk_limits(Notified(Self), last'.arg).self)
             /\ last'.result = check_risk_limits(Notified(Self), last'.arg).ok
       /\ last'.op = "filter_signals"
          => /\ LedgerBecomes(filter_signals(Notified(Self), last'.arg).self)
             /\ last'.result
                   = filter_signals(Notified(Self), last'.arg).filtered_signals
       /\ RunsUpm
          => /\ LedgerBecomes(IF last'.op = "monitor_tick"
                              THEN FinishTick(Notified(UpmEntry))
                              ELSE _update_portfolio_metrics(Notified(UpmEntry)))
             /\ EmergencyCondition(UpmEntry)
                   => /\ emergency_stop'
                      /\ positions' = <<>>
                      /\ InSeq(EMERGENCY_STOP, appended')
       /\ metrics \in FailingMetrics => notified' = <<>>]_vars

\* C19 witness: with a Metrics collaborator that raises, a close_position
\* triggered the emergency stop, which logged its event and closed every
\* position, and nothing reached the collaborator.
C19_Witness ==
    /\ metrics = "raising"
    /\ last.op = "close_position"
    /\ InSeq(EMERGENCY_STOP, appended)
    /\ emergency_stop
    /\ positions = <<>>
    /\ notified = <<>>

\* position_size * (confidence * |take_profit - entry_price|
\*                  - (1 - confidence) * |entry_price - stop_loss|)
ClaimedExpectedValue(signal) ==
    RMul(signal.position_size,
         RSub(RMul(signal.confidence,
                   RAbs(RSub(signal.take_profit, signal.entry_price))),
              RMul(RSub(FromInt(1), signal.confidence),
                   RAbs(RSub(signal.entry_price, signal.stop_loss)))))

\* the signal as generated, without what the ranking wrote into its metadata
AsGenerated(signal) ==
    [signal EXCEPT !.metadata =
        [k \in DOMAIN signal.metadata \ {"expected_value"} |-> signal.metadata[k]]]

Occurrences(seq, x) == Cardinality({i \in 1..Len(seq) : seq[i] = x})

\* C20: _rank_signals returns a permutation of its input, sorted by
\* expected_value = position_size * (confidence * |take_profit - entry_price|
\* - (1 - confidence) * |entry_price - stop_loss|) in descending order, in
\* which signals of equal expected_value keep their order of generation.
C20_RankIsStableDescendingSort ==
    last.op = "_rank_signals"
        => LET given == last.arg
               ranked == [i \in 1..Len(last.result) |-> AsGenerated(last.result[i])]
           IN /\ Len(ranked) = Len(given)
              /\ \A signal \in GeneratedSignals :
                    Occurrences(ranked, signal) = Occurrences(given, signal)
              /\ \A i, j \in 1..Len(ranked) :
                    i < j => RGe(ClaimedExpectedValue(ranked[i]),
                                 ClaimedExpectedValue(ranked[j]))
              /\ \A signal \in GeneratedSignals :
                    SelectSeq(ranked, LAMBDA r : ClaimedExpectedValue(r)
                                                    = ClaimedExpectedValue(signal))
                        = SelectSeq(given, LAMBDA g : ClaimedExpectedValue(g)
                                                         = ClaimedExpectedValue(signal))

\* C20 witness: a list of three signals was reordered by the ranking and two
\* different signals of equal expected_value are next to each other in it.
C20_Witness ==
    /\ last.op = "_rank_signals"
    /\ Len(last.arg) = MaxRanked
    /\ [i \in 1..Len(last.result) |-> AsGenerated(last.result[i])] # last.arg
    /\ \E i \in 1..(Len(last.result) - 1) :
          /\ last.result[i] # last.result[i + 1]
          /\ ClaimedExpectedValue(last.result[i])
                = ClaimedExpectedValue(last.result[i + 1])

\* the checks check_risk_limits makes before the correlation check pass for
\* the signal in the current ledger
EarlierChecksPass(signal) ==
    /\ ~emergency_stop /\ ~DailyLossAtLimit /\ ~DrawdownAtLimit
    /\ Len(positions) < config.max_positions
    /\ ~PositionSizeExceeded(Self, signal)

\* the estimated correlation of the signal's symbol with some held symbol
\* exceeds max_correlation
CorrelationExceeded(signal) ==
    \E i \in 1..Len(positions) :
        RGt(_calculate_correlation(Get(signal, "symbol", ""), positions[i].symbol),
            config.max_correlation)

\* C23: when the earlier admission checks pass and the estimated correlation
\* between the signal's symbol and some held symbol exceeds max_correlation,
\* check_risk_limits rejects the signal and appends a
\* CORRELATION_LIMIT_EXCEEDED event, for every non-empty set of held
\* positions, a single held position included.
C23_CorrelatedRejectedWithEvent ==
    [][(/\ last'.op = "check_risk_limits"
        /\ EarlierChecksPass(last'.arg)
        /\ CorrelationExceeded(last'.arg))
          => /\ last'.result = FALSE
             /\ InSeq(CORRELATION_LIMIT_EXCEEDED, appended')]_vars

\* C24: when all earlier admission checks pass and the projected portfolio
\* volatility after adding the position exceeds max_volatility,
\* check_risk_limits rejects the signal and appends a
\* VOLATILITY_LIMIT_EXCEEDED event.
C24_VolatileRejectedWithEvent ==
    [][(/\ last'.op = "check_risk_limits"
        /\ EarlierChecksPass(last'.arg)
        /\ ~CorrelationExceeded(last'.arg)
        /\ _check_volatility_limits(Self, last'.arg))
          => /\ last'.result = FALSE
             /\ InSeq(VOLATILITY_LIMIT_EXCEEDED, appended')]_vars

\* the unrealized PnL of the position held under the symbol
HeldPnl(symbol) == positions[IndexOf(positions, symbol)].unrealized_pnl

\* a step of close_position that leaves every field of the ledger alone
CloseChangesNothing ==
    /\ appended' = <<>>
    /\ <<positions, daily_pnl, total_pnl, portfolio_value, peak_value,
         emergency_stop>>'
           = <<positions, daily_pnl, total_pnl, portfolio_value, peak_value,
               emergency_stop>>

\* C25 as claimed: closing a held symbol removes that symbol only and adds
\* its unrealized_pnl to total_pnl, daily_pnl and portfolio_value;
\* close_position for a symbol that is not held returns success=False and
\* leaves the ledger unchanged.
C25_CloseRemovesThatSymbolOnly ==
    [][last'.op = "close_position"
          => IF HasKey(positions, last'.arg[1])
             THEN /\ last'.result = TRUE
                  /\ positions' = DictDel(positions, last'.arg[1])
                  /\ total_pnl' = total_pnl + HeldPnl(last'.arg[1])
                  /\ daily_pnl' = daily_pnl + HeldPnl(last'.arg[1])
                  /\ portfolio_value' = portfolio_value + HeldPnl(last'.arg[1])
             ELSE /\ last'.result = FALSE
                  /\ CloseChangesNothing]_vars

\* C25 amended: closing a held symbol returns success and folds its
\* unrealized_pnl into total_pnl, daily_pnl and portfolio_value once; it
\* removes that symbol only, unless the totals after the fold meet the
\* emergency trigger (total_pnl <= -emergency_stop_loss * portfolio_value),
\* in which case the stop sequence also closes every other position and
\* folds each one's unrealized_pnl once.  close_position for a symbol that
\* is not held returns success=False and leaves positions, the totals,
\* peak_value, emergency_stop and risk_events unchanged.
C25_CloseFoldsOnce ==
    [][last'.op = "close_position"
          => IF HasKey(positions, last'.arg[1])
             THEN /\ last'.result = TRUE
                  /\ IF EmergencyCondition(FoldPosition(Self, last'.arg[1]))
                     THEN /\ positions' = <<>>
                          /\ emergency_stop'
                          /\ total_pnl' = total_pnl + SumUnrealized(positions)
                          /\ daily_pnl' = daily_pnl + SumUnrealized(positions)
                          /\ portfolio_value'
                                = portfolio_value + SumUnrealized(positions)
                     ELSE /\ positions' = DictDel(positions, last'.arg[1])
                          /\ emergency_stop' = emergency_stop
                          /\ total_pnl' = total_pnl + HeldPnl(last'.arg[1])
                          /\ daily_pnl' = daily_pnl + HeldPnl(last'.arg[1])
                          /\ portfolio_value'
                                = portfolio_value + HeldPnl(last'.arg[1])
             ELSE /\ last'.result = FALSE
                  /\ CloseChangesNothing]_vars

\* C25 witness: close_position was called again for a symbol it had already
\* closed, in a ledger past its drawdown limit with another position open,
\* and answered 'Position not found'.
C25_Witness ==
    /\ last.op = "close_position"
    /\ last.result = FALSE
    /\ DrawdownAtLimit
    /\ Len(positions) = 1
    /\ total_pnl # 0

\* C26: in every state between ledger operations each position of the
\* ledger has unrealized_pnl = (current_price - entry_price) * size when its
\* side is 'long' and (entry_price - current_price) * size otherwise (so
\* neither update_position nor the monitor's price refresh leaves a changed
\* current_price with a stale unrealized_pnl), and no two positions share a
\* symbol.
C26_PnlDerivedFromPrices ==
    /\ \A i \in 1..Len(positions) :
          positions[i].unrealized_pnl
              = IF positions[i].side = "long"
                THEN (positions[i].current_price - positions[i].entry_price)
                         * positions[i].size
                ELSE (positions[i].entry_price - positions[i].current_price)
                         * positions[i].size
    /\ \A i, j \in 1..Len(positions) :
          positions[i].symbol = positions[j].symbol => i = j

\* C26 witness: after MaxUpdates calls of update_position two positions are
\* held, a long and a short one, and the long one carries a price written
\* by the monitor's refresh.
C26_Witness ==
    /\ Len(positions) = 2
    /\ \E i, j \in 1..2 :
          /\ positions[i].side = "long" /\ positions[j].side = "short"
          /\ positions[i].current_price \in BrokerPrices
    /\ updates = MaxUpdates

\* C27: in every reachable state daily_pnl = total_pnl = portfolio_value -
\* 100000; a step changes the three accumulators only together and by the
\* same amount, and only when close_position runs in it (called directly,
\* or by the emergency stop of update_position or of a monitor tick); and
\* as daily_pnl is never reset, a breached daily loss limit stops being
\* breached only through a step that raises daily_pnl.
C27_AccumulatorsInLockstep ==
    /\ [](daily_pnl = total_pnl /\ total_pnl = portfolio_value - StartingPortfolioValue)
    /\ [][/\ daily_pnl' - daily_pnl = total_pnl' - total_pnl
          /\ portfolio_value' - portfolio_value = total_pnl' - total_pnl
          /\ total_pnl' # total_pnl
                => \/ last'.op = "close_position" /\ last'.result = TRUE
                   \/ /\ last'.op \in {"update_position", "monitor_tick", "initialize"}
                      /\ InSeq(EMERGENCY_STOP, appended')
                      /\ positions' = <<>>
          /\ (DailyLossAtLimit /\ ~DailyLossAtLimit'
                 /\ config'.max_daily_loss = config.max_daily_loss)
                => daily_pnl' > daily_pnl]_vars

\* C27 witness: after a profitable and a losing close the three
\* accumulators stand at the same net loss, past the daily loss limit and
\* short of the emergency trigger.
C27_Witness ==
    /\ last.op = "close_position"
    /\ last.result = TRUE
    /\ peak_value > StartingPortfolioValue
    /\ daily_pnl < 0
    /\ DailyLossAtLimit
    /\ ~emergency_stop

\* the emergency trigger condition of the current ledger, written out:
\* total_pnl <= -emergency_stop_loss * portfolio_value
EmergencyTriggerHolds ==
    total_pnl * config.emergency_stop_loss.d
        <= -(config.emergency_stop_loss.n * portfolio_value)

\* C28: with emergency_stop_loss > 0 unchanged since construction, in every
\* state between ledger operations total_pnl <= -emergency_stop_loss *
\* portfolio_value implies that emergency_stop is set, and filter_signals
\* admits no signal when it is called in a state where the trigger
\* condition holds.
C28_TriggerImpliesStopped ==
    /\ []((/\ config.emergency_stop_loss = RiskLimits.emergency_stop_loss
           /\ config.emergency_stop_loss.n > 0
           /\ EmergencyTriggerHolds)
             => emergency_stop)
    /\ [][(last'.op = "filter_signals" /\ EmergencyTriggerHolds)
             => last'.result = <<>>]_vars

\* C28 witness: filter_signals was called on a batch with a signal of
\* sufficient confidence in a ledger whose realized loss meets the trigger,
\* with no position left, and returned nothing.
C28_Witness ==
    /\ last.op = "filter_signals"
    /\ \E i \in 1..Len(last.arg) : RGe(last.arg[i].confidence, MinSignalConfidence)
    /\ EmergencyTriggerHolds
    /\ total_pnl < 0
    /\ positions = <<>>
    /\ last.result = <<>>

\* C29: the stop sequence terminates although it re-enters itself: when a
\* close_position leaves totals that meet the emergency trigger with N
\* positions still open, the call returns with the calls of _emergency_stop
\* nested at most N + 1 deep, every one of the N positions removed and the
\* unrealized PnL of each added once to total_pnl, daily_pnl and
\* portfolio_value.
C29_StopSequenceTerminates ==
    [][(/\ last'.op = "close_position"
        /\ last'.result = TRUE
        /\ EmergencyCondition(FoldPosition(Self, last'.arg[1])))
          => LET open == FoldPosition(Self, last'.arg[1])
             IN /\ stop_nesting' >= 1
                /\ stop_nesting' <= Len(open.positions) + 1
                /\ emergency_stop'
                /\ positions' = <<>>
                /\ total_pnl' = open.total_pnl + SumUnrealized(open.positions)
                /\ daily_pnl' = open.daily_pnl + SumUnrealized(open.positions)
                /\ portfolio_value'
                      = open.portfolio_value + SumUnrealized(open.positions)]_vars

\* C29 witness: a close_position on a loaded book of MaxLoaded losing
\* positions triggered the stop, which re-entered itself once for each of
\* the other positions and once more on the empty book.
C29_Witness ==
    /\ last.op = "close_position"
    /\ stop_nesting = MaxLoaded
    /\ emergency_stop
    /\ positions = <<>>
    /\ total_pnl = -25000 * MaxLoaded

\* the signal's entry_price is positive and its confidence lies in [0, 1]
SizedInRange(signal) ==
    /\ "confidence" \in DOMAIN signal
    /\ RGt(signal.entry_price, RZero)
    /\ RGe(signal.confidence, RZero)
    /\ RLe(signal.confidence, FromInt(1))

\* size * entry_price <= confidence * max_position_size * portfolio_value
NotionalWithinShare(signal, size) ==
    RLe(RMul(size, signal.entry_price),
        RMul(signal.confidence,
             RMul(config.max_position_size, FromInt(portfolio_value))))

\* C30: for every signal with entry_price > 0 and 0 <= confidence <= 1 and
\* every portfolio_value > 0, the size _calculate_position_size returns
\* (called on its own or by filter_signals) satisfies size * entry_price <=
\* confidence * max_position_size * portfolio_value, whatever the stop
\* distance.
C30_NotionalWithinConfidenceShare ==
    portfolio_value > 0
        => /\ (last.op = "_calculate_position_size" /\ SizedInRange(last.arg))
                 => NotionalWithinShare(last.arg, last.result)
           /\ last.op = "filter_signals"
                 => \A i \in 1..Len(last.result) :
                       SizedInRange(last.result[i])
                           => NotionalWithinShare(last.result[i],
                                                  last.result[i].position_size)

\* C30 witness: filter_signals sized a signal of confidence below 1 whose
\* stop is so close that the cap on the position value decides the size:
\* its notional value is exactly confidence * max_position_size *
\* portfolio_value.
C30_Witness ==
    /\ last.op = "filter_signals"
    /\ portfolio_value > 0
    /\ \E i \in 1..Len(last.result) :
          /\ SizedInRange(last.result[i])
          /\ RLt(last.result[i].confidence, FromInt(1))
          /\ RMul(last.result[i].position_size, last.result[i].entry_price)
                = RMul(last.result[i].confidence,
                       RMul(config.max_position_size, FromInt(portfolio_value)))

\* ------------------------------------------------------------------------
\* Generation of the signals (DecisionEngine.generate_signals)
\* ------------------------------------------------------------------------
Strategies == {StrategyTypes[k] : k \in 1..Len(StrategyTypes)}

\* the try block of a strategy
TryOf(strategy, cfg, symbol, data) ==
    CASE strategy = "ml_prediction" -> MlTry(cfg, symbol, data)
      [] strategy = "momentum" -> MomentumTry(cfg, symbol, data)
      [] strategy = "mean_reversion" -> MeanReversionTry(cfg, symbol, data)
      [] strategy = "breakout" -> BreakoutTry(cfg, symbol, data)
      [] OTHER -> ArbitrageTry(cfg, symbol, data)

\* the signals the strategies build for the market data of the last
\* generate_signals call, strategy by strategy and symbol by symbol
BuiltSignals ==
    UNION { { TryOf(strategy, engine_config, last.arg[i].symbol,
                    last.arg[i].data).signals[j] :
                j \in 1..Len(TryOf(strategy, engine_config, last.arg[i].symbol,
                                   last.arg[i].data).signals) } :
            strategy \in Strategies, i \in 1..Len(last.arg) }

ConfidentEnough(signal) == RGe(signal.confidence, engine_config.min_confidence)

\* C21: every signal a strategy builds has a confidence between 0 and 1, and
\* every signal generate_signals returns has a confidence of at least
\* min_confidence
C21_ConfidenceBounds ==
    last.op = "generate_signals" =>
        /\ \A signal \in BuiltSignals :
              RLe(RZero, signal.confidence) /\ RLe(signal.confidence, FromInt(1))
        /\ \A i \in 1..Len(last.result) : ConfidentEnough(last.result[i])

\* generate_signals returned signals after the filter had dropped a built
\* signal whose confidence is below min_confidence
C21_Witness ==
    /\ last.op = "generate_signals"
    /\ last.result # <<>>
    /\ \E signal \in BuiltSignals : ~ConfidentEnough(signal)

\* the signals of the last generate_signals call that a strategy's try block
\* built for a symbol
BuiltBy(strategy, i) ==
    TryOf(strategy, engine_config, last.arg[i].symbol, last.arg[i].data)

\* the signal is the one a list holds for that strategy and symbol
Holds(signals, strategy, symbol) ==
    \E j \in 1..Len(signals) :
        signals[j].strategy = strategy /\ signals[j].symbol = symbol

\* C22: a strategy that fails contributes no signal and every other strategy
\* still contributes its own; generate_signals does not fail and returns the
\* confident signals of the strategies that ran, up to max_signals_per_cycle
C22_StrategyIsolation ==
    last.op = "generate_signals" =>
        LET signals == CollectSignals(engine_config, last.arg)
            confident == SelectSeq(signals, ConfidentEnough)
        IN /\ \A i \in 1..Len(last.arg), strategy \in Strategies :
                 /\ BuiltBy(strategy, i).raised =>
                       ~Holds(signals, strategy, last.arg[i].symbol)
                 /\ ~BuiltBy(strategy, i).raised =>
                       \A j \in 1..Len(BuiltBy(strategy, i).signals) :
                           InSeq(BuiltBy(strategy, i).signals[j], signals)
           /\ Len(last.result) =
                 IF Len(confident) < engine_config.max_signals_per_cycle
                 THEN Len(confident) ELSE engine_config.max_signals_per_cycle
           /\ \A j \in 1..Len(last.result) :
                 \E signal \in BuiltSignals :
                     /\ signal.strategy = last.result[j].strategy
                     /\ signal.symbol = last.result[j].symbol
           /\ signal_history = last.result

\* for a symbol with an empty close list the momentum strategy failed, and
\* the breakout strategy, asked after it, has its signal in the result
C22_Witness ==
    /\ last.op = "generate_signals"
    /\ \E i \in 1..Len(last.arg) :
          /\ BuiltBy("momentum", i).raised
          /\ Holds(last.result, "breakout", last.arg[i].symbol)

Next ==
    \/ Initialize
    \/ UpdatePosition
    \/ ClosePosition
    \/ FilterSignals
    \/ CheckRiskLimits
    \/ UpdateParameters
    \/ CalculatePositionSize
    \/ MonitorTick
    \/ MonitorPrice

Spec == Init /\ [][Next]_vars

\* the RiskManager whose Metrics collaborator is missing or fails
NextUnnotified ==
    \/ InitializeUnnotified
    \/ UpdatePosition
    \/ ClosePosition
    \/ FilterSignals
    \/ CheckRiskLimits
    \/ MonitorTick
    \/ MonitorPrice

SpecUnnotified == Init /\ [][NextUnnotified]_vars

\* the RiskManager closing the positions of a book loaded at start-up
NextLiquidation ==
    \/ InitializeLoaded
    \/ CloseLoaded

SpecLiquidation == Init /\ [][NextLiquidation]_vars

\* the DecisionEngine ranking lists of generated signals
\* the DecisionEngine generating signals, its parameters updated in between
NextSignals ==
    \/ GenerateSignals
    \/ UpdateEngineParameters

SpecSignals == Init /\ [][NextSignals]_vars

NextRanking == RankSignals

SpecRanking == Init /\ [][NextRanking]_vars
====
